---- MODULE Spec2Model ----
(***************************************************************************)
(* A model of DS_BU.py: the Lassy tree -> DAG conversion (class Lassy) and *)
(* the head-driven type assignment (class Decompose).                      *)
(*                                                                         *)
(* Nodes are integer handles.  A node's attributes (the ElementTree        *)
(* attrib dictionary) are a record; an attribute that is absent in the     *)
(* source is the empty string, the number 0 or a FALSE flag here.  The     *)
(* adjacency map ("grouped") is a sequence of entries in dictionary order, *)
(* each holding a key and the list of [child, rel] pairs.  A rel is a      *)
(* record [lab, tag]: tag "" stands for the bare string of the source,     *)
(* tag "primary"/"secondary" for the two-element list.                     *)
(***************************************************************************)
EXTENDS Integers, Sequences, FiniteSets, TLC

VARIABLES
    pc,       \* the stage the pipeline has reached
    attrib,   \* node -> attributes (id, cat, pos, word, index, begin, end, rel)
    xtree,    \* the ElementTree: node -> list of child nodes (root is node 1)
    grouped,  \* the adjacency map
    other,    \* a second adjacency map: the same DAG with reordered child lists
    cfg,      \* the Decompose object's configuration: unify, return_lists
    ret,      \* what the last operation returned or raised
    ret2      \* what the operation returned or raised on `other`

vars == <<pc, attrib, xtree, grouped, other, cfg, ret, ret2>>

(***************************************************************************)
(* Generic helpers.                                                        *)
(***************************************************************************)
Range(s) == {s[i] : i \in DOMAIN s}

RECURSIVE SelectIdx(_, _)
\* the indices of s, ascending, that belong to the set keep
SelectIdx(n, keep) ==
    IF n = 0 THEN <<>>
    ELSE IF n \in keep THEN Append(SelectIdx(n - 1, keep), n)
         ELSE SelectIdx(n - 1, keep)

\* the subsequence of s at the positions in keep (Python: a filter)
Keep(s, keep) ==
    LET idx == SelectIdx(Len(s), keep)
    IN  [i \in 1..Len(idx) |-> s[idx[i]]]

\* Python's sorted(): a stable sort of s under the strict order Less
Sorted(s, Less(_, _)) ==
    LET n == Len(s)
        rank(i) == Cardinality({j \in 1..n :
                       Less(s[j], s[i]) \/ (~Less(s[i], s[j]) /\ j < i)}) + 1
    IN  [p \in 1..n |-> s[CHOOSE i \in 1..n : rank(i) = p]]

\* all orderings of a finite set
Orderings(S) ==
    {s \in [1..Cardinality(S) -> S] : \A i, j \in DOMAIN s : i # j => s[i] # s[j]}

Reverse(s) == [i \in 1..Len(s) |-> s[Len(s) + 1 - i]]

(***************************************************************************)
(* The type algebra (module WordType).                                     *)
(***************************************************************************)
\* an atomic type: WordType((), 'NP') with a string result
Atom(l) ==
    [arglist |-> <<>>, result |-> <<>>, lab |-> l, modality |-> FALSE, colors |-> <<>>]

\* ColouredType(arglist, result, modality=..., colors=...)
ColouredType(arglist, result, modality, colors) ==
    [arglist |-> arglist, result |-> <<result>>, lab |-> "",
     modality |-> modality, colors |-> colors]

\* WordType(arglist, result, modality=...) over a result that is a type:
\* a type with no argument and no modality is its result
WordType(arglist, result, modality) ==
    IF arglist = <<>> /\ ~modality THEN result
    ELSE [arglist |-> arglist, result |-> <<result>>, lab |-> "",
          modality |-> modality, colors |-> <<>>]

\* the value that stands for Python's None where a type is expected
NoneType == Atom("None")

\* the exceptions a lookup can end in, where a type or a type key is expected
ErrorKeys == {"KeyError", "IndexError", "RecursionError"}

KeyErrorType == Atom("KeyError")

IsErrorType(t) == t.lab \in ErrorKeys

RECURSIVE remove_deps(_)
\* WordType.remove_deps: the type without its dependency colors
remove_deps(t) ==
    IF t.result = <<>> THEN t
    ELSE [arglist |-> [i \in DOMAIN t.arglist |-> remove_deps(t.arglist[i])],
          result |-> <<remove_deps(t.result[1])>>, lab |-> "",
          modality |-> t.modality, colors |-> <<>>]

\* the labels of the atomic types in the order of their string form
TypeLabels ==
    <<"ADJ", "ADV", "ADVP", "AHI", "AP", "COMP", "COMPARATIVE", "CONJ", "CP",
      "DET", "DETP", "DU", "FIXED", "INF", "MWU", "NP", "OTI", "PART", "PP",
      "PPART", "PPRES", "PREFIX", "PREP", "PUNCT", "REL", "S", "SVAN", "TAG",
      "TI", "TOP", "VERB", "VG", "WHQ", "WHREL", "WHSUB">>

\* the place of an atomic type's __repr__ in string order
ReprRank(t) == CHOOSE i \in DOMAIN TypeLabels : TypeLabels[i] = t.lab

(***************************************************************************)
(* Decompose.__init__                                                      *)
(***************************************************************************)
\* self.type_dict before the conversion to types: POS / category -> label
type_labels ==
    [k \in {"adj", "adv", "advp", "ahi", "ap", "comp", "comparative", "conj",
            "cp", "det", "detp", "du", "fixed", "inf", "mwu", "name", "noun",
            "np", "num", "oti", "part", "pp", "ppart", "ppres", "prefix",
            "prep", "pron", "punct", "rel", "smain", "ssub", "sv1", "svan",
            "tag", "ti", "top", "verb", "vg", "whq", "whrel", "whsub"} |->
        CASE k = "adj" -> "ADJ" [] k = "adv" -> "ADV" [] k = "advp" -> "ADVP"
          [] k = "ahi" -> "AHI" [] k = "ap" -> "AP" [] k = "comp" -> "COMP"
          [] k = "comparative" -> "COMPARATIVE" [] k = "conj" -> "CONJ"
          [] k = "cp" -> "CP" [] k = "det" -> "DET" [] k = "detp" -> "DETP"
          [] k = "du" -> "DU" [] k = "fixed" -> "FIXED" [] k = "inf" -> "INF"
          [] k = "mwu" -> "MWU" [] k = "name" -> "NP" [] k = "noun" -> "NP"
          [] k = "np" -> "NP" [] k = "num" -> "NP" [] k = "oti" -> "OTI"
          [] k = "part" -> "PART" [] k = "pp" -> "PP" [] k = "ppart" -> "PPART"
          [] k = "ppres" -> "PPRES" [] k = "prefix" -> "PREFIX"
          [] k = "prep" -> "PREP" [] k = "pron" -> "NP" [] k = "punct" -> "PUNCT"
          [] k = "rel" -> "REL" [] k = "smain" -> "S" [] k = "ssub" -> "S"
          [] k = "sv1" -> "S" [] k = "svan" -> "SVAN" [] k = "tag" -> "TAG"
          [] k = "ti" -> "TI" [] k = "top" -> "TOP" [] k = "verb" -> "VERB"
          [] k = "vg" -> "VG" [] k = "whq" -> "WHQ" [] k = "whrel" -> "WHREL"
          [] k = "whsub" -> "WHSUB"]

\* self.type_dict: {k: WordType((), v)}; a missing key is a KeyError
type_dict(k) ==
    IF k \in DOMAIN type_labels THEN Atom(type_labels[k])
    ELSE IF k \in ErrorKeys THEN Atom(k) ELSE KeyErrorType

\* self.head_candidates
head_candidates == {"hd", "rhd", "whd", "cmp", "crd", "dlink"}

\* self.separation_symbol
separation_symbol == "~"

\* self.text_pipeline: x.lower(), letter by letter
lower(ch) ==
    CASE ch = "A" -> "a" [] ch = "B" -> "b" [] OTHER -> ch

text_pipeline(word) == [i \in DOMAIN word |-> lower(word[i])]

\* self.get_key: the processed word, the separation symbol, the node's id
get_key(A, node) ==
    text_pipeline(A[node].word) \o <<separation_symbol>> \o <<ToString(A[node].id)>>

(***************************************************************************)
(* The adjacency map.                                                      *)
(***************************************************************************)
Rel(lab, tag) == [lab |-> lab, tag |-> tag]

Pair(c, r) == [c |-> c, r |-> r]

Keys(g) == {g[i].k : i \in DOMAIN g}

\* grouped[key]; the caller checks that key is a key
ChildList(g, key) == g[CHOOSE i \in DOMAIN g : g[i].k = key].ch

\* every node that stands in some child list
AllChildren(g) == UNION {{g[i].ch[j].c : j \in DOMAIN g[i].ch} : i \in DOMAIN g}

\* grouped[key] = list
SetChildList(g, key, list) ==
    [i \in DOMAIN g |-> IF g[i].k = key THEN [k |-> key, ch |-> list] ELSE g[i]]

\* list.remove(x): drops the first element equal to x
ListRemove(list, x) ==
    LET first == CHOOSE i \in DOMAIN list :
                     list[i] = x /\ \A j \in 1..(i - 1) : list[j] # x
    IN  Keep(list, DOMAIN list \ {first})

\* del grouped[key]
DelKey(g, key) == Keep(g, {i \in DOMAIN g : g[i].k # key})

(***************************************************************************)
(* Decompose: node helpers.                                                *)
(***************************************************************************)
\* Decompose.is_leaf: 'word' in node.attrib
is_leaf(A, node) == A[node].hasword

\* Decompose.get_rel: the label of a tagged edge, or the bare label
get_rel(rel) == rel.lab

\* is_gap of recursive_assignment: a list whose second element is 'secondary'
is_gap(rel) == rel.tag # "" /\ rel.tag = "secondary"

\* the error a type key stands for when a lookup failed
KeyErrorKey == "KeyError"

\* the deepest chain of calls the model follows before Python's RecursionError
MaxRecursion == 8

RECURSIVE get_type_key(_, _, _, _, _)
RECURSIVE majority_vote(_, _, _, _, _)

\* Decompose.majority_vote: the most frequent type key among the node's
\* children.  votes is sorted by descending count over the iteration order
\* of a set of strings; ties is that order (a list of the type keys), so
\* among the most frequent keys the one that comes first in ties wins.
majority_vote(A, g, ties, node, fuel) ==
    IF fuel = 0 THEN "RecursionError"
    ELSE IF node \notin Keys(g) THEN KeyErrorKey
    ELSE LET list == ChildList(g, node)
             sibling_types ==
                 [i \in DOMAIN list |-> get_type_key(A, g, ties, list[i].c, fuel - 1)]
             votes(c) == Cardinality({i \in DOMAIN sibling_types : sibling_types[i] = c})
             best == {c \in Range(sibling_types) :
                         \A d \in Range(sibling_types) : votes(d) <= votes(c)}
             place(c) == IF \E i \in DOMAIN ties : ties[i] = c
                         THEN CHOOSE i \in DOMAIN ties : ties[i] = c
                         ELSE Len(ties) + 1
         IN  IF list = <<>> THEN "IndexError"
             ELSE IF KeyErrorKey \in Range(sibling_types) THEN KeyErrorKey
             ELSE IF "RecursionError" \in Range(sibling_types) THEN "RecursionError"
             ELSE IF "IndexError" \in Range(sibling_types) THEN "IndexError"
             ELSE CHOOSE c \in best : \A d \in best : place(c) <= place(d)

\* Decompose.get_type_key: the cat of a node (voted for a conj), else its pos
get_type_key(A, g, ties, node, fuel) ==
    IF A[node].cat # ""
    THEN IF A[node].cat = "conj" THEN majority_vote(A, g, ties, node, fuel)
         ELSE A[node].cat
    ELSE IF A[node].pos # "" THEN A[node].pos ELSE KeyErrorKey

\* Decompose.get_plain_type: the type_dict entry of the node's cat (voted for
\* a conj) or pos
get_plain_type(A, g, ties, node) ==
    IF A[node].cat # ""
    THEN IF A[node].cat = "conj"
         THEN type_dict(majority_vote(A, g, ties, node, MaxRecursion))
         ELSE type_dict(A[node].cat)
    ELSE IF A[node].pos # "" THEN type_dict(A[node].pos) ELSE KeyErrorType

\* the sort key of order_siblings: (begin, end, id) as integers
SpanLess(A, m, n) ==
    \/ A[m].begin < A[n].begin
    \/ A[m].begin = A[n].begin /\ A[m].end < A[n].end
    \/ A[m].begin = A[n].begin /\ A[m].end = A[n].end /\ A[m].id < A[n].id

\* order_siblings without the filter on exclude
order_siblings_all(A, siblings, exclude) ==
    LET Less(x, y) == SpanLess(A, x.c, y.c)
    IN  Sorted(siblings, Less)

\* Decompose.order_siblings: the pairs whose node is not exclude, by span
order_siblings(A, siblings, exclude) ==
    LET kept == Keep(siblings, {i \in DOMAIN siblings : siblings[i].c # exclude})
        Less(x, y) == SpanLess(A, x.c, y.c)
    IN  Sorted(kept, Less)

\* Decompose.pick_first_match: the first child whose rel equals cond, or None (0)
pick_first_match(children_rels, cond) ==
    LET a == Keep(children_rels, {i \in DOMAIN children_rels : children_rels[i].r = cond})
    IN  IF a # <<>> THEN a[1].c ELSE 0

HeadlessError == "ValueError: Unknown headless structure"

\* choose_head falling back to the first child where the source raises
choose_head_fallback(children_rels) ==
    LET cand == {i \in DOMAIN children_rels :
                    get_rel(children_rels[i].r) \in head_candidates}
        first == CHOOSE i \in cand : \A j \in cand : i <= j
    IN  IF cand # {}
        THEN [err |-> "", head |-> children_rels[first].c, rel |-> children_rels[first].r]
        ELSE [err |-> "", head |-> children_rels[1].c, rel |-> children_rels[1].r]

\* choose_head taking the candidate whose label stands first in the list of
\* head candidates, wherever it stands among the children
choose_head_by_priority(children_rels) ==
    LET order == <<"hd", "rhd", "whd", "cmp", "crd", "dlink">>
        place(i) == CHOOSE p \in DOMAIN order : order[p] = get_rel(children_rels[i].r)
        cand == {i \in DOMAIN children_rels :
                    get_rel(children_rels[i].r) \in head_candidates}
        best == CHOOSE i \in cand :
                    \A j \in cand : place(i) < place(j) \/ (place(i) = place(j) /\ i <= j)
    IN  IF cand # {}
        THEN [err |-> "", head |-> children_rels[best].c, rel |-> children_rels[best].r]
        ELSE [err |-> HeadlessError, head |-> 0, rel |-> Rel("", "")]

\* Decompose.choose_head: the first pair whose label is a head candidate; else
\* the first child whose rel is the bare string 'crd', else 'cnj'; else an error
choose_head(children_rels) ==
    LET cand == {i \in DOMAIN children_rels :
                    get_rel(children_rels[i].r) \in head_candidates}
        first == CHOOSE i \in cand : \A j \in cand : i <= j
        rels == [i \in DOMAIN children_rels |-> children_rels[i].r]
    IN  IF cand # {}
        THEN [err |-> "", head |-> children_rels[first].c, rel |-> children_rels[first].r]
        ELSE IF Rel("crd", "") \in Range(rels)
        THEN [err |-> "", head |-> pick_first_match(children_rels, Rel("crd", "")),
              rel |-> Rel("crd", "")]
        ELSE IF Rel("cnj", "") \in Range(rels)
        THEN [err |-> "", head |-> pick_first_match(children_rels, Rel("cnj", "")),
              rel |-> Rel("cnj", "")]
        ELSE [err |-> HeadlessError, head |-> 0, rel |-> Rel("", "")]


(***************************************************************************)
(* Decompose.recursive_assignment                                          *)
(***************************************************************************)
EmptyLexicon == [k \in {} |-> NoneType]

\* lexicon[key] = t
Put(lexicon, key, t) ==
    [k \in DOMAIN lexicon \cup {key} |-> IF k = key THEN t ELSE lexicon[k]]

\* an exception leaves the lexicon as written so far
Raise(lexicon, err, at) == [lex |-> lexicon, err |-> err, at |-> at]

Return(lexicon) == [lex |-> lexicon, err |-> "", at |-> 0]

ConflictError == "ValueError: Trying to assign, when it was already assigned"

PrematureError == "ValueError: Attempting to assign secondary type before having primary type."

RECURSIVE recursive_assignment(_, _, _, _, _, _, _)
RECURSIVE assign_siblings(_, _, _, _, _, _, _, _)

\* the secondary type of a leaf sibling whose key already holds primary_type
SecondaryType(sib_type, plain, primary_type, rel) ==
    IF sib_type = primary_type THEN WordType(<<>>, plain, TRUE)
    ELSE ColouredType(<<ColouredType(<<sib_type>>, primary_type.arglist[1],
                                     FALSE, <<get_rel(rel)>>)>>,
                      primary_type.result[1], FALSE, <<primary_type.colors[1]>>)

\* AssignLeaf writing nothing
AssignLeaf_skipping(current, rel, lexicon, plain, sib_type, key) == Return(lexicon)

\* AssignLeaf writing the plain type where the key holds no primary type yet
AssignLeaf_unchecked(current, rel, lexicon, plain, sib_type, key) ==
    IF IsErrorType(plain) THEN Raise(lexicon, plain.lab, current)
    ELSE IF ~is_gap(rel) \/ key \notin DOMAIN lexicon THEN Return(Put(lexicon, key, sib_type))
    ELSE IF sib_type # lexicon[key] /\ lexicon[key].arglist = <<>>
    THEN Raise(lexicon, "IndexError", current)
    ELSE Return(Put(lexicon, key, SecondaryType(sib_type, plain, lexicon[key], rel)))

\* one round of the loop over the non-head siblings: a leaf sibling
AssignLeaf(current, rel, lexicon, plain, sib_type, key) ==
    IF IsErrorType(plain) THEN Raise(lexicon, plain.lab, current)
    ELSE IF ~is_gap(rel) THEN Return(Put(lexicon, key, sib_type))
    ELSE IF key \notin DOMAIN lexicon THEN Raise(lexicon, PrematureError, current)
    ELSE IF sib_type # lexicon[key] /\ lexicon[key].arglist = <<>>
    THEN Raise(lexicon, "IndexError", current)
    ELSE Return(Put(lexicon, key, SecondaryType(sib_type, plain, lexicon[key], rel)))

\* assign_siblings recursing into every internal sibling, whatever its edge
assign_siblings_recursing(A, g, ties, current, siblings, i, lexicon, fuel) ==
    LET Continue(step) ==
            IF step.err # "" THEN step
            ELSE assign_siblings(A, g, ties, current, siblings, i + 1, step.lex, fuel)
        Leaf_(sib, rel, plain) ==
            AssignLeaf(current, rel, lexicon, plain, WordType(<<>>, plain, FALSE),
                       get_key(A, sib))
        Round(sib, rel) ==
            IF is_leaf(A, sib) THEN Leaf_(sib, rel, get_plain_type(A, g, ties, sib))
            ELSE recursive_assignment(A, g, ties, sib, NoneType, lexicon, fuel - 1)
    IN  IF i > Len(siblings) THEN Return(lexicon)
        ELSE Continue(Round(siblings[i].c, siblings[i].r))

\* the loop over the non-head siblings, from the i-th on
assign_siblings(A, g, ties, current, siblings, i, lexicon, fuel) ==
    LET Continue(step) ==
            IF step.err # "" THEN step
            ELSE assign_siblings(A, g, ties, current, siblings, i + 1, step.lex, fuel)
        Leaf_(sib, rel, plain) ==
            AssignLeaf(current, rel, lexicon, plain, WordType(<<>>, plain, FALSE),
                       get_key(A, sib))
        Round(sib, rel) ==
            IF is_leaf(A, sib) THEN Leaf_(sib, rel, get_plain_type(A, g, ties, sib))
            ELSE IF is_gap(rel) THEN Raise(lexicon, "NotImplementedError", current)
            ELSE recursive_assignment(A, g, ties, sib, NoneType, lexicon, fuel - 1)
    IN  IF i > Len(siblings) THEN Return(lexicon)
        ELSE Continue(Round(siblings[i].c, siblings[i].r))

\* the assignment to a leaf head: a key that already holds a type must hold
\* the type built here (for a gap: with or without the modality)
AssignHead(current, lexicon, key, gap, headtype, plaintype, modaltype) ==
    IF gap /\ key \in DOMAIN lexicon
    THEN IF lexicon[key] # plaintype /\ lexicon[key] # modaltype
         THEN Raise(lexicon, ConflictError, current)
         ELSE Return(Put(lexicon, key, headtype))
    ELSE IF key \in DOMAIN lexicon /\ lexicon[key] # headtype
         THEN Raise(lexicon, ConflictError, current)
         ELSE Return(Put(lexicon, key, headtype))

\* recursive_assignment handing its own top type down to an internal head
recursive_assignment_flat(A, g, ties, current, top_type, lexicon, fuel) ==
    LET Siblings(done, siblings) ==
            IF done.err # "" THEN done
            ELSE assign_siblings(A, g, ties, current, siblings, 1, done.lex, fuel)
        HeadChild(headchild, gap, top, argtypes, argdeps) ==
            IF is_leaf(A, headchild)
            THEN AssignHead(current, lexicon, get_key(A, headchild), gap,
                            ColouredType(argtypes, top, gap, argdeps),
                            ColouredType(argtypes, top, FALSE, argdeps),
                            ColouredType(argtypes, top, TRUE, argdeps))
            ELSE recursive_assignment(A, g, ties, headchild, top, lexicon, fuel - 1)
        ReprLess(x, y) == ReprRank(x.t) < ReprRank(y.t)
        Sort(h, top, siblings, arglist) ==
            Siblings(HeadChild(h.head, is_gap(h.rel), top,
                               [i \in DOMAIN arglist |-> arglist[i].t],
                               [i \in DOMAIN arglist |-> arglist[i].d]),
                     siblings)
        Args(h, top, siblings, plain) ==
            IF \E i \in DOMAIN plain : IsErrorType(plain[i].t)
            THEN Raise(lexicon, "KeyError", current)
            ELSE Sort(h, top, siblings, Sorted(plain, ReprLess))
        Order(h, top, siblings) ==
            IF IsErrorType(top) THEN Raise(lexicon, top.lab, current)
            ELSE Args(h, top, siblings,
                      [i \in DOMAIN siblings |->
                          [t |-> get_plain_type(A, g, ties, siblings[i].c),
                           d |-> get_rel(siblings[i].r)]])
        Top(h) ==
            IF h.err # "" THEN Raise(lexicon, h.err, current)
            ELSE Order(h,
                       IF top_type = NoneType
                       THEN WordType(<<>>, get_plain_type(A, g, ties, current), FALSE)
                       ELSE top_type,
                       order_siblings(A, ChildList(g, current), h.head))
    IN  IF fuel = 0 THEN Raise(lexicon, "RecursionError", current)
        ELSE IF current \notin Keys(g) THEN Raise(lexicon, "KeyError", current)
        ELSE Top(choose_head(ChildList(g, current)))

\* Decompose.recursive_assignment(current, grouped, top_type, lexicon): the
\* lexicon as left by the call, and the exception raised, if any
recursive_assignment(A, g, ties, current, top_type, lexicon, fuel) ==
    LET Siblings(done, siblings) ==
            IF done.err # "" THEN done
            ELSE assign_siblings(A, g, ties, current, siblings, 1, done.lex, fuel)
        HeadChild(headchild, gap, top, argtypes, argdeps) ==
            IF is_leaf(A, headchild)
            THEN AssignHead(current, lexicon, get_key(A, headchild), gap,
                            ColouredType(argtypes, top, gap, argdeps),
                            ColouredType(argtypes, top, FALSE, argdeps),
                            ColouredType(argtypes, top, TRUE, argdeps))
            ELSE recursive_assignment(A, g, ties, headchild,
                                      ColouredType(argtypes, top, gap, argdeps),
                                      lexicon, fuel - 1)
        ReprLess(x, y) == ReprRank(x.t) < ReprRank(y.t)
        Sort(h, top, siblings, arglist) ==
            Siblings(HeadChild(h.head, is_gap(h.rel), top,
                               [i \in DOMAIN arglist |-> arglist[i].t],
                               [i \in DOMAIN arglist |-> arglist[i].d]),
                     siblings)
        Args(h, top, siblings, plain) ==
            IF \E i \in DOMAIN plain : IsErrorType(plain[i].t)
            THEN Raise(lexicon, "KeyError", current)
            ELSE Sort(h, top, siblings, Sorted(plain, ReprLess))
        Order(h, top, siblings) ==
            IF IsErrorType(top) THEN Raise(lexicon, top.lab, current)
            ELSE Args(h, top, siblings,
                      [i \in DOMAIN siblings |->
                          [t |-> get_plain_type(A, g, ties, siblings[i].c),
                           d |-> get_rel(siblings[i].r)]])
        Top(h) ==
            IF h.err # "" THEN Raise(lexicon, h.err, current)
            ELSE Order(h,
                       IF top_type = NoneType
                       THEN WordType(<<>>, get_plain_type(A, g, ties, current), FALSE)
                       ELSE top_type,
                       order_siblings(A, ChildList(g, current), h.head))
    IN  IF fuel = 0 THEN Raise(lexicon, "RecursionError", current)
        ELSE IF current \notin Keys(g) THEN Raise(lexicon, "KeyError", current)
        ELSE Top(choose_head(ChildList(g, current)))

(***************************************************************************)
(* Decompose.get_disconnected, lexicon_to_list, __call__                   *)
(***************************************************************************)
\* get_disconnected without its assert
get_disconnected_unchecked(A, g) ==
    [err |-> "", roots |-> Keys(g) \ AllChildren(g)]

\* Decompose.get_disconnected: the keys that are nobody's child; the assert
\* fails when a child that is no key is no leaf
get_disconnected(A, g) ==
    LET all_keys == Keys(g)
        all_children == AllChildren(g)
    IN  IF \A x \in all_children \ all_keys : is_leaf(A, x)
        THEN [err |-> "", roots |-> all_keys \ all_children]
        ELSE [err |-> "AssertionError", roots |-> {}]

\* key.split(self.separation_symbol)[0]: the part before the first separation symbol
SplitFirst(key) ==
    LET seps == {i \in DOMAIN key : key[i] = separation_symbol}
        cut == IF seps = {} THEN Len(key) + 1 ELSE CHOOSE i \in seps : \A j \in seps : i <= j
    IN  SubSeq(key, 1, cut - 1)

\* Decompose.lexicon_to_list(sublex, grouped, to_sequences)
lexicon_to_list(A, sublex, g, to_sequences) ==
    LET Less(m, n) == SpanLess(A, m, n)
        Ret(rt) ==
            IF to_sequences
            THEN <<[i \in DOMAIN rt |-> rt[i][1]], [i \in DOMAIN rt |-> rt[i][2]]>>
            ELSE rt
        InLex(enum) ==
            Ret([i \in DOMAIN enum |-> <<SplitFirst(enum[i]), remove_deps(sublex[enum[i]])>>])
        Enum(enum) == InLex(Keep(enum, {i \in DOMAIN enum : enum[i] \in DOMAIN sublex}))
        Leaves(all_leaves) == Enum([i \in DOMAIN all_leaves |-> get_key(A, all_leaves[i])])
    IN  Leaves(Sorted(CHOOSE s \in Orderings({x \in AllChildren(g) : A[x].hasword}) : TRUE,
                      Less))

RECURSIVE AssignFrom(_, _, _, _, _, _, _)
\* the loop of __call__ over top_nodes, from the i-th on: shared = TRUE writes
\* every root into one lexicon, FALSE gives each root a lexicon of its own
AssignFrom(A, g, ties, top_nodes, i, shared, dicts) ==
    LET Written(r) ==
            IF shared THEN <<r.lex>>
            ELSE [j \in DOMAIN dicts |-> IF j = i THEN r.lex ELSE dicts[j]]
        Round(r) ==
            IF r.err # ""
            THEN [err |-> r.err, dicts |-> Written(r), started |-> SubSeq(top_nodes, 1, i)]
            ELSE AssignFrom(A, g, ties, top_nodes, i + 1, shared, Written(r))
    IN  IF i > Len(top_nodes) THEN [err |-> "", dicts |-> dicts, started |-> top_nodes]
        ELSE Round(recursive_assignment(A, g, ties, top_nodes[i], NoneType,
                                        IF shared THEN dicts[1] ELSE dicts[i],
                                        MaxRecursion))

\* Decompose.__call__(grouped); top_nodes is the set of roots in the order in
\* which the set is iterated.  The unified list output calls lexicon_to_list
\* on the class with two arguments where three are required: a TypeError.
Call(A, g, ties, unify, return_lists, top_nodes) ==
    LET Output(loop) ==
            IF loop.err # ""
            THEN [err |-> loop.err, value |-> <<>>, started |-> loop.started]
            ELSE IF unify
            THEN IF return_lists
                 THEN [err |-> "TypeError", value |-> <<>>, started |-> loop.started]
                 ELSE [err |-> "", value |-> loop.dicts[1], started |-> loop.started]
            ELSE IF return_lists
                 THEN [err |-> "",
                       value |-> [i \in DOMAIN loop.dicts |->
                                     lexicon_to_list(A, loop.dicts[i], g, TRUE)],
                       started |-> loop.started]
                 ELSE [err |-> "", value |-> loop.dicts, started |-> loop.started]
        Roots(d) ==
            IF d.err # "" THEN [err |-> d.err, value |-> <<>>, started |-> <<>>]
            ELSE Output(AssignFrom(A, g, ties, top_nodes, 1, unify,
                            IF unify THEN <<EmptyLexicon>>
                            ELSE [i \in DOMAIN top_nodes |-> EmptyLexicon]))
    IN  Roots(get_disconnected(A, g))

(***************************************************************************)
(* Inputs: small adjacency maps.  Nodes 1 and 2 are the phrases, the other *)
(* nodes are words.  A child list holds its entries in ascending node      *)
(* order; the spans run with or against that order.                        *)
(***************************************************************************)
\* the words of a flat input: one phrase over its words
NumLeaves == 3

\* the words of a forest input: two phrases over their words
ForestLeaves == 2

PhraseNodes == {1, 2}

LeafNodes == 3..(2 + NumLeaves)

Nodes == PhraseNodes \cup LeafNodes

NoRel == Rel("", "")

Leaf(pos, index, r1, r2) ==
    [pos |-> pos, cat |-> "", hasword |-> TRUE, index |-> index, r1 |-> r1, r2 |-> r2]

\* a node that is not part of the input
Absent == Leaf("noun", 0, NoRel, NoRel)

\* a word under the one phrase of a flat input; the last but one is a
\* childless phrase, which carries no word
FlatKinds ==
    {Leaf("verb", 0, Rel("hd", ""), NoRel),
     Leaf("comp", 0, Rel("cmp", ""), NoRel),
     Leaf("noun", 0, Rel("su", ""), NoRel),
     Leaf("pron", 1, Rel("su", "primary"), NoRel),
     Leaf("adj", 0, Rel("mod", ""), NoRel),
     Leaf("noun", 0, Rel("app", ""), NoRel),
     [pos |-> "", cat |-> "np", hasword |-> FALSE, index |-> 0,
      r1 |-> Rel("su", ""), r2 |-> NoRel],
     Absent}

\* a word under the first phrase, the second, or both (coindexed: one edge
\* primary, the other secondary)
ForestKinds ==
    {Leaf("verb", 0, Rel("hd", ""), NoRel),
     Leaf("verb", 0, NoRel, Rel("hd", "")),
     Leaf("noun", 0, Rel("su", ""), NoRel),
     Leaf("noun", 0, NoRel, Rel("su", "")),
     Leaf("adj", 0, Rel("mod", ""), NoRel),
     Leaf("adj", 0, NoRel, Rel("mod", "")),
     Leaf("pron", 1, Rel("su", "primary"), Rel("su", "secondary")),
     Leaf("pron", 1, Rel("su", "secondary"), Rel("su", "primary")),
     Absent}

\* the second phrase: absent, a root of its own, or a child of the first
NoPhrase == [lab |-> "", cat |-> ""]

PhraseRoles ==
    {[lab |-> "--", cat |-> "np"],
     [lab |-> "vc", cat |-> "inf"],
     [lab |-> "hd", cat |-> "np"]}

\* the word of a leaf
WordOf(n) ==
    CASE n % 3 = 0 -> <<"A", "b">>
      [] n % 3 = 1 -> <<"b">>
      [] OTHER -> <<"b", "~", "A">>

RelUnder(k, kind) == IF k = 1 THEN kind.r1 ELSE kind.r2

\* the child list of phrase k: the second phrase if it hangs under k, then
\* the words that hang under k
InputList(k, kinds, role) ==
    LET under == (IF k = 1 /\ role.lab \notin {"", "--"} THEN {2} ELSE {})
                 \cup {n \in LeafNodes : RelUnder(k, kinds[n]) # NoRel}
        order == Sorted(CHOOSE s \in Orderings(under) : TRUE, <)
    IN  [i \in DOMAIN order |->
            IF order[i] = 2
            THEN Pair(2, Rel(role.lab, IF "tag" \in DOMAIN role THEN role.tag ELSE ""))
            ELSE Pair(order[i], RelUnder(k, kinds[order[i]]))]

InputGrouped(kinds, role) ==
    LET all == [k \in 1..2 |-> [k |-> k, ch |-> InputList(k, kinds, role)]]
    IN  Keep(all, {k \in 1..2 : all[k].ch # <<>>})

\* the node's own record of its edges: parent id -> rel
EdgesOf(g, n) ==
    [p \in {k \in Keys(g) : \E j \in DOMAIN ChildList(g, k) : ChildList(g, k)[j].c = n} |->
        LET list == ChildList(g, p)
        IN  list[CHOOSE j \in DOMAIN list : list[j].c = n].r]

InputAttrib(g, rootcat, kinds, role, spanrev) ==
    [n \in Nodes |->
        [id |-> n,
         cat |-> IF n = 1 THEN rootcat ELSE IF n = 2 THEN role.cat ELSE kinds[n].cat,
         pos |-> IF n \in LeafNodes THEN kinds[n].pos ELSE "",
         hasword |-> n \in LeafNodes /\ kinds[n].hasword,
         word |-> IF n \in LeafNodes /\ kinds[n].hasword THEN WordOf(n) ELSE <<>>,
         index |-> IF n \in LeafNodes THEN kinds[n].index ELSE 0,
         begin |-> IF spanrev THEN 10 - n ELSE n,
         end |-> IF spanrev THEN 11 - n ELSE n + 1,
         rel |-> EdgesOf(g, n),
         relstr |-> ""]]

\* the same map with every child list reversed
Reordered(g) == [i \in DOMAIN g |-> [k |-> g[i].k, ch |-> Reverse(g[i].ch)]]

\* Decompose(): unify=False, return_lists=True
DefaultCfg == [unify |-> FALSE, return_lists |-> TRUE, ties |-> <<>>]

NoRet == [op |-> ""]

InitMap(kinds, role, rootcat, spanrev, start, ties) ==
    /\ grouped = InputGrouped(kinds, role)
    /\ attrib = InputAttrib(InputGrouped(kinds, role), rootcat, kinds, role, spanrev)
    /\ other = Reordered(InputGrouped(kinds, role))
    /\ xtree = <<>>
    /\ cfg = [DefaultCfg EXCEPT !.ties = ties]
    /\ pc = start
    /\ ret = NoRet
    /\ ret2 = NoRet

InitInput(kinds, role, rootcat, spanrev) ==
    InitMap(kinds, role, rootcat, spanrev, "input", <<>>)

\* one phrase over NumLeaves words
InitFlat ==
    \E kinds \in [LeafNodes -> FlatKinds], rootcat \in {"smain", "np"}, spanrev \in BOOLEAN :
        InitInput(kinds, NoPhrase, rootcat, spanrev)

\* two phrases over ForestLeaves words
InitForest ==
    \E kinds \in [LeafNodes -> ForestKinds], role \in PhraseRoles, spanrev \in BOOLEAN :
        /\ \A n \in LeafNodes : n > 2 + ForestLeaves => kinds[n] = Absent
        /\ InitInput(kinds, role, "smain", spanrev)

Init == InitFlat \/ InitForest

(***************************************************************************)
(* Operations on an adjacency map.                                         *)
(***************************************************************************)
\* choose_head on the child list of a key
ChooseHead ==
    /\ pc = "input"
    /\ \E k \in Keys(grouped) :
        ret' = [op |-> "choose_head", current |-> k, res |-> choose_head(ChildList(grouped, k))]
    /\ pc' = "done"
    /\ UNCHANGED <<attrib, xtree, grouped, other, cfg, ret2>>

\* get_disconnected(grouped)
GetDisconnected ==
    /\ pc = "input"
    /\ ret' = [op |-> "get_disconnected", res |-> get_disconnected(attrib, grouped)]
    /\ pc' = "done"
    /\ UNCHANGED <<attrib, xtree, grouped, other, cfg, ret2>>

\* recursive_assignment(current, grouped, None, {}) at a key
Assign ==
    /\ pc = "input"
    /\ \E k \in Keys(grouped) :
        ret' = [op |-> "recursive_assignment", current |-> k,
                res |-> recursive_assignment(attrib, grouped, cfg.ties, k, NoneType,
                                             EmptyLexicon, MaxRecursion)]
    /\ pc' = "done"
    /\ UNCHANGED <<attrib, xtree, grouped, other, cfg, ret2>>

\* a lexicon with the keys of the given words, every entry a colored functor
SomeLexicon(A, words) ==
    [key \in {get_key(A, n) : n \in words} |->
        ColouredType(<<Atom("NP")>>, Atom("S"), FALSE, <<"su">>)]

\* lexicon_to_list(sublex, grouped, to_sequences) on a lexicon over some of
\* the words
LexiconToList ==
    /\ pc = "input"
    /\ \E words \in SUBSET {n \in DOMAIN attrib : attrib[n].hasword}, to_sequences \in BOOLEAN :
        ret' = [op |-> "lexicon_to_list", words |-> words, to_sequences |-> to_sequences,
                res |-> lexicon_to_list(attrib, SomeLexicon(attrib, words), grouped,
                                        to_sequences)]
    /\ pc' = "done"
    /\ UNCHANGED <<attrib, xtree, grouped, other, cfg, ret2>>

\* Decompose(unify=.., return_lists=..)(grouped)
DecomposeCall ==
    /\ pc \in {"input", "removed"}
    /\ \E unify \in BOOLEAN, return_lists \in BOOLEAN :
       \E top_nodes \in Orderings(get_disconnected(attrib, grouped).roots) :
        /\ cfg' = [cfg EXCEPT !.unify = unify, !.return_lists = return_lists]
        /\ ret' = [op |-> "call", top_nodes |-> top_nodes,
                   res |-> Call(attrib, grouped, cfg.ties, unify, return_lists, top_nodes)]
    /\ pc' = "called"
    /\ UNCHANGED <<attrib, xtree, grouped, other, ret2>>

\* a second run of the same Decompose object on the reordered map
DecomposeOther ==
    /\ pc = "called"
    /\ \E top_nodes \in Orderings(get_disconnected(attrib, other).roots) :
        ret2' = [op |-> "call", top_nodes |-> top_nodes,
                 res |-> Call(attrib, other, cfg.ties, cfg.unify, cfg.return_lists, top_nodes)]
    /\ pc' = "done"
    /\ UNCHANGED <<attrib, xtree, grouped, other, cfg, ret>>

Next == ChooseHead \/ GetDisconnected \/ Assign \/ DecomposeCall \/ DecomposeOther

Spec == Init /\ [][Next]_vars

\* the serializer alone, over the same maps
NextLex == LexiconToList

SpecLex == Init /\ [][NextLex]_vars

(***************************************************************************)
(* Lassy: the parse tree.  An element is known by its place in the         *)
(* document; its identifier is an attribute.  xtree.par is the parent of   *)
(* every element of the parsed document and xtree.alive the elements that  *)
(* are still part of the tree.                                             *)
(***************************************************************************)
\* a dict with no entry
EmptyDict == [p \in {} |-> NoRel]

\* {**old, key: value}: the new entry wins
Merge_overwriting(key, value, old) ==
    [x \in DOMAIN old \cup {key} |-> IF x = key THEN value ELSE old[x]]

\* {key: value, **old}: the entries of old win
Merge(key, value, old) ==
    [x \in DOMAIN old \cup {key} |-> IF x \in DOMAIN old THEN old[x] ELSE value]

\* del d[key]
DictDel(d, key) == [x \in DOMAIN d \ {key} |-> d[x]]

\* d[key] = value
DictPut(d, key, value) == [x \in DOMAIN d \cup {key} |-> IF x = key THEN value ELSE d[x]]

RECURSIVE Depth(_, _)
Depth(par, n) == IF par[n] = 0 THEN 0 ELSE 1 + Depth(par, par[n])

RECURSIVE InSubtree(_, _, _)
\* n is a or lies beneath a
InSubtree(par, a, n) ==
    IF n = a THEN TRUE ELSE IF par[n] = 0 THEN FALSE ELSE InSubtree(par, a, par[n])

\* xtree.iter('node'): the elements of the tree in document order
iter(t) ==
    LET all == [n \in DOMAIN t.par |-> n]
    IN  Keep(all, t.alive)

\* Lassy.extract_nodes: the elements level by level, each level in document
\* order (the parent of n is t.par[n])
extract_nodes(t) ==
    LET Less(m, n) == Depth(t.par, m) < Depth(t.par, n)
    IN  Sorted(iter(t), Less)

\* 'cat' in x.attrib or 'word' in x.attrib
HasContent(A, n) == A[n].cat # "" \/ A[n].hasword

\* find_main_coindex choosing the last member with content
find_main_coindex_last(A, t) ==
    LET nodes == iter(t)
        coindexed == Keep(nodes, {i \in DOMAIN nodes : A[nodes[i]].index # 0})
        indices == {A[coindexed[i]].index : i \in DOMAIN coindexed}
        group(x) == Keep(coindexed, {i \in DOMAIN coindexed : A[coindexed[i]].index = x})
        withcontent(x) == Keep(group(x), {i \in DOMAIN group(x) : HasContent(A, group(x)[i])})
    IN  IF \E x \in indices : withcontent(x) = <<>>
        THEN [err |-> "IndexError", all_coind |-> <<>>, main_coind |-> <<>>]
        ELSE [err |-> "", all_coind |-> [x \in indices |-> group(x)],
              main_coind |-> [x \in indices |-> withcontent(x)[Len(withcontent(x))]]]

\* Lassy.find_main_coindex: the elements with an index, grouped by index in
\* document order; the main node of a group is its first member with cat or
\* word, and a group without such a member is an IndexError
find_main_coindex(A, t) ==
    LET nodes == iter(t)
        coindexed == Keep(nodes, {i \in DOMAIN nodes : A[nodes[i]].index # 0})
        indices == {A[coindexed[i]].index : i \in DOMAIN coindexed}
        group(x) == Keep(coindexed, {i \in DOMAIN coindexed : A[coindexed[i]].index = x})
        withcontent(x) == Keep(group(x), {i \in DOMAIN group(x) : HasContent(A, group(x)[i])})
    IN  IF \E x \in indices : withcontent(x) = <<>>
        THEN [err |-> "IndexError", all_coind |-> <<>>, main_coind |-> <<>>]
        ELSE [err |-> "", all_coind |-> [x \in indices |-> group(x)],
              main_coind |-> [x \in indices |-> withcontent(x)[1]]]

RECURSIVE mark_primary(_, _, _, _, _)
\* tree_to_dag, first loop: the rel of every main node but the root becomes
\* {parent id: [rel, 'primary']}
mark_primary(A, par, nodes, mains, i) ==
    IF i > Len(nodes) THEN A
    ELSE IF nodes[i] \in mains
         THEN mark_primary([A EXCEPT ![nodes[i]].rel =
                                         Merge(A[par[nodes[i]]].id,
                                               Rel(A[nodes[i]].relstr, "primary"), EmptyDict),
                                     ![nodes[i]].relstr = ""],
                           par, nodes, mains, i + 1)
         ELSE mark_primary(A, par, nodes, mains, i + 1)

RECURSIVE link_duplicates(_, _, _, _, _, _)
\* tree_to_dag, second loop: an element whose rel is still a string is, with
\* an index, a duplicate: its edge goes to the main node of its index as
\* [rel, 'secondary'] and the element leaves the tree with all beneath it;
\* without an index its rel becomes {parent id: rel}
link_duplicates(A, par, alive, nodes, main_coind, i) ==
    IF i > Len(nodes) THEN [err |-> "", attrib |-> A, alive |-> alive]
    ELSE IF A[nodes[i]].relstr = ""
         THEN link_duplicates(A, par, alive, nodes, main_coind, i + 1)
    ELSE IF A[nodes[i]].index # 0
         THEN IF A[main_coind[A[nodes[i]].index]].relstr # ""
              THEN [err |-> "TypeError", attrib |-> A, alive |-> alive]
              ELSE link_duplicates(
                       [A EXCEPT ![main_coind[A[nodes[i]].index]].rel =
                            Merge(A[par[nodes[i]]].id, Rel(A[nodes[i]].relstr, "secondary"), @)],
                       par, {n \in alive : ~InSubtree(par, nodes[i], n)},
                       nodes, main_coind, i + 1)
    ELSE link_duplicates(
             [A EXCEPT ![nodes[i]].rel = Merge(A[par[nodes[i]]].id,
                                               Rel(A[nodes[i]].relstr, ""), EmptyDict),
                       ![nodes[i]].relstr = ""],
             par, alive, nodes, main_coind, i + 1)

\* Lassy.tree_to_dag: [err, attrib, alive]
tree_to_dag(A, t) ==
    LET Link(nodes, found) ==
            IF found.err # "" THEN [err |-> found.err, attrib |-> A, alive |-> t.alive]
            ELSE link_duplicates(mark_primary(A, t.par, nodes, Range(found.main_coind), 2),
                                 t.par, t.alive, nodes, found.main_coind, 2)
    IN  Link(extract_nodes(t), find_main_coindex(A, t))

(***************************************************************************)
(* Decompose: from the tree to the adjacency map.  The key None is 0.      *)
(***************************************************************************)
\* the parent ids a node is entered under: -1 while its rel is a string
ParentIds(A, n) == IF A[n].relstr # "" THEN {-1} ELSE DOMAIN A[n].rel

\* the child list of parent id p: the nodes entered under p, in document order
ChildrenOf(A, nodes, p) ==
    LET under == Keep(nodes, {i \in DOMAIN nodes : p \in ParentIds(A, nodes[i])})
    IN  [i \in DOMAIN under |->
            Pair(under[i], IF p = -1 THEN Rel("top", "") ELSE A[under[i]].rel[p])]

\* Decompose.group_by_parent: [err, grouped].  The entries are sorted by the
\* integer parent id and grouped; the key of a group is the first node of
\* the tree with that id (None for -1), and an id of no node is an IndexError
group_by_parent(A, t) ==
    LET nodes == iter(t)
        ids == UNION {ParentIds(A, nodes[i]) : i \in DOMAIN nodes}
        keys == Sorted(CHOOSE s \in Orderings(ids) : TRUE, <)
        NodeOf(p) == IF p = -1 THEN 0
                     ELSE nodes[CHOOSE i \in DOMAIN nodes :
                                   A[nodes[i]].id = p /\ \A j \in 1..(i - 1) : A[nodes[j]].id # p]
    IN  IF \E p \in ids : p # -1 /\ \A i \in DOMAIN nodes : A[nodes[i]].id # p
        THEN [err |-> "IndexError", grouped |-> <<>>]
        ELSE [err |-> "",
              grouped |-> [i \in DOMAIN keys |->
                              [k |-> NodeOf(keys[i]), ch |-> ChildrenOf(A, nodes, keys[i])]]]

RECURSIVE JoinWords(_, _, _)
\* ''.join([x[0].attrib['word'] + ' ' for x in nodes])
JoinWords(A, nodes, i) ==
    IF i > Len(nodes) THEN <<>>
    ELSE A[nodes[i].c].word \o <<" ">> \o JoinWords(A, nodes, i + 1)

\* s[0:]
DropNone(s) == s

\* s[0:-1]
DropLast(s) == IF s = <<>> THEN <<>> ELSE SubSeq(s, 1, Len(s) - 1)

\* key is not None, has a cat, and the cat is mwu
IsMwuKey(A, key) == key # 0 /\ A[key].cat = "mwu"

RECURSIVE collapse_from(_, _, _, _, _, _)
\* Decompose.collapse_mwu over the keys i..last: [err, attrib, grouped].  A
\* multi-word unit gets the words of its children, ordered by span, as its
\* word and the vote over its children as its cat; the units are deleted
\* from the keys after the loop.  A child without word is a KeyError.
collapse_from(A, g, ties, i, to_remove, last) ==
    LET Vote(A1, vote) ==
            IF vote \in ErrorKeys THEN [err |-> vote, attrib |-> A1, grouped |-> g]
            ELSE collapse_from([A1 EXCEPT ![g[i].k].cat = vote], g, ties, i + 1,
                               to_remove \cup {g[i].k}, last)
        Word(nodes) ==
            IF \E j \in DOMAIN nodes : ~A[nodes[j].c].hasword
            THEN [err |-> "KeyError", attrib |-> A, grouped |-> g]
            ELSE Vote([A EXCEPT ![g[i].k].word = DropLast(JoinWords(A, nodes, 1)),
                                ![g[i].k].hasword = TRUE],
                      majority_vote(A, g, ties, g[i].k, MaxRecursion))
    IN  IF i > last
        THEN [err |-> "", attrib |-> A,
              grouped |-> Keep(g, {j \in DOMAIN g : g[j].k \notin to_remove})]
        ELSE IF ~IsMwuKey(A, g[i].k) THEN collapse_from(A, g, ties, i + 1, to_remove, last)
        ELSE Word(order_siblings(A, g[i].ch, 0))

\* collapse_mwu leaving its loop after the first multi-word unit
collapse_first(A, g, ties) ==
    LET mwus == {i \in DOMAIN g : IsMwuKey(A, g[i].k)}
    IN  IF mwus = {} THEN [err |-> "", attrib |-> A, grouped |-> g]
        ELSE collapse_from(A, g, ties, 1, {}, CHOOSE i \in mwus : \A j \in mwus : i <= j)

\* collapse_mwu(grouped)
collapse_mwu(A, g, ties) == collapse_from(A, g, ties, 1, {}, Len(g))

\* the rels_to_remove of split_dag: its default, and the list main() passes
rels_to_remove_default == {"dp", "sat", "nucl", "tag", "--", "top"}

rels_to_remove_main == rels_to_remove_default \cup {"mod"}

RECURSIVE remove_while_iterating(_, _, _)
\* for c, r in list: if c in gone: list.remove([c, r]).  After a removal the
\* loop goes on at the next index of the shortened list.
remove_while_iterating(list, gone, i) ==
    IF i > Len(list) THEN list
    ELSE IF list[i].c \in gone
         THEN remove_while_iterating(ListRemove(list, list[i]), gone, i + 1)
         ELSE remove_while_iterating(list, gone, i + 1)

RECURSIVE drop_empty(_)
\* split_dag, the loop over the keys with zero children
drop_empty(g) ==
    LET empty_keys == {g[i].k : i \in {j \in DOMAIN g : g[j].ch = <<>>}}
        kept == Keep(g, {i \in DOMAIN g : g[i].k \notin empty_keys})
    IN  IF empty_keys = {} THEN g
        ELSE drop_empty([i \in DOMAIN kept |->
                            [k |-> kept[i].k,
                             ch |-> remove_while_iterating(kept[i].ch, empty_keys, 1)]])

\* Decompose.split_dag(grouped, cats_to_remove, rels_to_remove)
split_dag(A, g, cats_to_remove, rels_to_remove) ==
    LET keys_to_remove == {g[i].k : i \in {j \in DOMAIN g :
                              g[j].k # 0 /\ A[g[j].k].cat \in cats_to_remove}}
        kept == Keep(g, {i \in DOMAIN g : g[i].k \notin keys_to_remove})
        Cut(list) == Keep(list, {j \in DOMAIN list :
                              /\ list[j].c \notin keys_to_remove
                              /\ get_rel(list[j].r) \notin rels_to_remove})
    IN  drop_empty([i \in DOMAIN kept |-> [k |-> kept[i].k, ch |-> Cut(kept[i].ch)]])

(***************************************************************************)
(* Decompose: abstract subjects and objects.                               *)
(***************************************************************************)
\* the first index of a list among those in ok, 0 if there is none
FirstOf(ok) == IF ok = {} THEN 0 ELSE CHOOSE i \in ok : \A j \in ok : i <= j

\* x[1] == ['su', 'secondary'] or x[1] == ['obj1', 'secondary']
IsRealSo(r) == r = Rel("su", "secondary") \/ r = Rel("obj1", "secondary")

\* x[1] == ['obj1', 'primary'] or x[1] == ['su', 'primary']
IsAbstractSo(r) == r = Rel("obj1", "primary") \/ r = Rel("su", "primary")

\* the place in list of the first child with cat in cats, or 0
FirstWithCat(A, list, cats) ==
    FirstOf({i \in DOMAIN list : A[list[i].c].cat # "" /\ A[list[i].c].cat \in cats})

\* the place in list of the first child with the index and a primary su or
\* obj1 edge, or 0
FirstAbstract(A, list, index) ==
    FirstOf({i \in DOMAIN list :
                /\ A[list[i].c].index # 0
                /\ IsAbstractSo(list[i].r)
                /\ A[list[i].c].index = index})

\* the filter reads real_so.attrib['index'], which real_so does not have
NeedsIndex(A, list, real_so) ==
    /\ A[real_so].index = 0
    /\ \E i \in DOMAIN list : A[list[i].c].index # 0 /\ IsAbstractSo(list[i].r)

Result(err, A, g) == [err |-> err, attrib |-> A, grouped |-> g]

\* the dictionary changes without the removal from the list of ppart
promote_keeping(A, g, main_parent, ppart, parent_dep, so, rel) ==
    IF Pair(so, Rel(parent_dep, "secondary")) \notin Range(ChildList(g, main_parent))
    THEN [err |-> "ValueError", attrib |-> A, grouped |-> g]
    ELSE [err |-> "", attrib |-> A,
          grouped |-> SetChildList(g, main_parent,
                         Append(ListRemove(ChildList(g, main_parent),
                                           Pair(so, Rel(parent_dep, "secondary"))),
                                Pair(so, Rel(parent_dep, "primary"))))]

\* abstract_object_to_subject, the dictionary changes and the internal node
\* changes: so leaves the list of ppart, and its secondary edge under
\* main_parent becomes a primary edge at the end of the list
promote(A, g, main_parent, ppart, parent_dep, so, rel) ==
    LET Internal(g2) ==
            IF A[ppart].id \notin DOMAIN A[so].rel THEN Result("KeyError", A, g2)
            ELSE Result("",
                        [A EXCEPT ![so].rel = DictPut(DictDel(@, A[ppart].id),
                                                      A[main_parent].id,
                                                      Rel("su", "primary"))],
                        g2)
        Readd(g1) ==
            IF Pair(so, Rel(parent_dep, "secondary")) \notin Range(ChildList(g1, main_parent))
            THEN Result("ValueError", A, g1)
            ELSE Internal(SetChildList(g1, main_parent,
                     Append(ListRemove(ChildList(g1, main_parent),
                                       Pair(so, Rel(parent_dep, "secondary"))),
                            Pair(so, Rel(parent_dep, "primary")))))
    IN  Readd(SetChildList(g, ppart,
                           ListRemove(ChildList(g, ppart), Pair(so, Rel(rel, "primary")))))

\* abstract_object_to_subject for one main_parent
relabel(A, g, main_parent) ==
    LET list == ChildList(g, main_parent)
        Found(real, ppart, place) ==
            promote(A, g, main_parent, ppart, real.r.lab,
                    ChildList(g, ppart)[place].c, ChildList(g, ppart)[place].r.lab)
        Chained(real, ppart, next) ==
            IF next = 0 THEN Result("", A, g)
            ELSE IF ChildList(g, ppart)[next].c \notin Keys(g) THEN Result("KeyError", A, g)
            ELSE IF NeedsIndex(A, ChildList(g, ChildList(g, ppart)[next].c), real.c)
                 THEN Result("KeyError", A, g)
            ELSE IF FirstAbstract(A, ChildList(g, ChildList(g, ppart)[next].c),
                                  A[real.c].index) = 0
                 THEN Result("", A, g)
            ELSE Found(real, ChildList(g, ppart)[next].c,
                       FirstAbstract(A, ChildList(g, ChildList(g, ppart)[next].c),
                                     A[real.c].index))
        Inside(real, ppart) ==
            IF ppart \notin Keys(g) THEN Result("KeyError", A, g)
            ELSE IF NeedsIndex(A, ChildList(g, ppart), real.c) THEN Result("KeyError", A, g)
            ELSE IF FirstAbstract(A, ChildList(g, ppart), A[real.c].index) # 0
                 THEN Found(real, ppart, FirstAbstract(A, ChildList(g, ppart), A[real.c].index))
            ELSE Chained(real, ppart, FirstWithCat(A, ChildList(g, ppart), {"ppart", "inf"}))
        Below(real, parent) ==
            IF parent \notin Keys(g) THEN Result("KeyError", A, g)
            ELSE IF FirstWithCat(A, ChildList(g, parent), {"ppart", "inf"}) = 0
                 THEN Result("", A, g)
            ELSE Inside(real, ChildList(g, parent)[FirstWithCat(A, ChildList(g, parent),
                                                                {"ppart", "inf"})].c)
        OmTe(real, ti) ==
            Below(real, IF ti = 0 THEN main_parent ELSE list[ti].c)
    IN  IF main_parent = 0 THEN Result("AttributeError", A, g)
        ELSE IF A[main_parent].cat = "" THEN Result("KeyError", A, g)
        ELSE IF A[main_parent].cat \notin {"ssub", "smain", "sv1"} THEN Result("", A, g)
        ELSE IF FirstOf({i \in DOMAIN list : IsRealSo(list[i].r)}) = 0 THEN Result("", A, g)
        ELSE OmTe(list[FirstOf({i \in DOMAIN list : IsRealSo(list[i].r)})],
                  FirstWithCat(A, list, {"ti"}))

RECURSIVE relabel_from(_, _, _)
\* the loop of abstract_object_to_subject over the keys, from the i-th on
relabel_from(A, g, i) ==
    LET Step(res) == IF res.err # "" THEN res
                     ELSE relabel_from(res.attrib, res.grouped, i + 1)
    IN  IF i > Len(g) THEN Result("", A, g) ELSE Step(relabel(A, g, g[i].k))

\* Decompose.abstract_object_to_subject(grouped): [err, attrib, grouped]
abstract_object_to_subject(A, g) == relabel_from(A, g, 1)

RECURSIVE remove_secondary(_, _, _, _)
\* remove_abstract_so, the loop over the children of a ppart or inf: a su or
\* obj1 edge tagged secondary is removed from the list, and from the child's
\* own rel; after a removal the loop goes on at the next index of the
\* shortened list.  [err, attrib, list]
remove_secondary(A, list, parent, i) ==
    IF i > Len(list) THEN [err |-> "", attrib |-> A, list |-> list]
    ELSE IF list[i].r.tag = "" \/ list[i].r.lab \notin {"su", "obj1"}
            \/ list[i].r.tag # "secondary"
         THEN remove_secondary(A, list, parent, i + 1)
    ELSE IF A[parent].id \notin DOMAIN A[list[i].c].rel
         THEN [err |-> "KeyError", attrib |-> A, list |-> ListRemove(list, list[i])]
    ELSE remove_secondary([A EXCEPT ![list[i].c].rel = DictDel(@, A[parent].id)],
                          ListRemove(list, list[i]), parent, i + 1)

RECURSIVE remove_from(_, _, _)
\* the loop of remove_abstract_so over the keys, from the i-th on
remove_from(A, g, i) ==
    LET Step(res) ==
            IF res.err # "" THEN Result(res.err, res.attrib, SetChildList(g, g[i].k, res.list))
            ELSE remove_from(res.attrib, SetChildList(g, g[i].k, res.list), i + 1)
    IN  IF i > Len(g) THEN Result("", A, g)
        ELSE IF g[i].k = 0 THEN Result("AttributeError", A, g)
        ELSE IF A[g[i].k].cat = "" THEN Result("KeyError", A, g)
        ELSE IF A[g[i].k].cat \notin {"ppart", "inf"} THEN remove_from(A, g, i + 1)
        ELSE Step(remove_secondary(A, g[i].ch, g[i].k, 1))

\* Decompose.remove_abstract_so(grouped): [err, attrib, grouped]
remove_abstract_so(A, g) == remove_from(A, g, 1)

(***************************************************************************)
(* Inputs: small parse trees, and the pipeline of main() over them.        *)
(***************************************************************************)
\* the elements of an input tree, the root included
TreeSize == 4

TreeNodes == 1..TreeSize

\* the parent of every element, the elements numbered in document order
Shapes ==
    {par \in [TreeNodes -> 0..(TreeSize - 1)] :
        /\ par[1] = 0
        /\ \A n \in TreeNodes \ {1} :
              /\ par[n] \in 1..(n - 1)
              /\ \A m \in (par[n] + 1)..(n - 1) : par[m] >= par[n]}

Element(cat, pos, hasword, index, lab) ==
    [cat |-> cat, pos |-> pos, hasword |-> hasword, index |-> index, lab |-> lab]

\* an element with children: a phrase, a coindexed phrase, a discourse unit,
\* a multi-word unit
PhraseKinds ==
    <<Element("np", "", FALSE, 0, "body"),
      Element("np", "", FALSE, 1, "su"),
      Element("du", "", FALSE, 0, "dp"),
      Element("mwu", "", FALSE, 0, "obj1")>>

\* an element without children: a word, a coindexed word, a duplicate that
\* carries its index only, a punctuation mark
WordKinds ==
    <<Element("", "noun", TRUE, 0, "hd"),
      Element("", "noun", TRUE, 1, "su"),
      Element("", "", FALSE, 1, "obj1"),
      Element("", "punct", TRUE, 0, "--")>>

\* the element at n: the choice-th phrase if n has children, else the
\* choice-th word
KindAt(par, n, choice) ==
    IF \E m \in TreeNodes : par[m] = n THEN PhraseKinds[choice] ELSE WordKinds[choice]

\* the identifiers: in document order, or against it
IdMaps == {[n \in TreeNodes |-> n], [n \in TreeNodes |-> TreeSize + 1 - n]}

TreeAttrib(par, kinds, ids) ==
    [n \in TreeNodes |->
        [id |-> ids[n],
         cat |-> IF n = 1 THEN "top" ELSE kinds[n].cat,
         pos |-> IF n = 1 THEN "" ELSE kinds[n].pos,
         hasword |-> n # 1 /\ kinds[n].hasword,
         word |-> IF n # 1 /\ kinds[n].hasword THEN WordOf(n) ELSE <<>>,
         index |-> IF n = 1 THEN 0 ELSE kinds[n].index,
         begin |-> n,
         end |-> n + 1,
         rel |-> EmptyDict,
         relstr |-> IF n = 1 THEN "top" ELSE kinds[n].lab]]

InitTree ==
    \E par \in Shapes, choice \in [TreeNodes \ {1} -> DOMAIN WordKinds], ids \in IdMaps :
        /\ xtree = [par |-> par, alive |-> TreeNodes]
        /\ attrib = TreeAttrib(par, [n \in TreeNodes \ {1} |-> KindAt(par, n, choice[n])], ids)
        /\ grouped = <<>>
        /\ other = <<>>
        /\ cfg = DefaultCfg
        /\ pc = "tree"
        /\ ret = NoRet
        /\ ret2 = NoRet

\* find_main_coindex(xtree), and once more
FindMainCoindex ==
    /\ pc \in {"tree", "found"}
    /\ IF pc = "tree"
       THEN /\ ret' = [op |-> "find_main_coindex", res |-> find_main_coindex(attrib, xtree)]
            /\ UNCHANGED ret2
       ELSE /\ ret2' = [op |-> "find_main_coindex", res |-> find_main_coindex(attrib, xtree)]
            /\ UNCHANGED ret
    /\ pc' = IF pc = "tree" THEN "found" ELSE "found twice"
    /\ UNCHANGED <<attrib, xtree, grouped, other, cfg>>

\* tree_to_dag(xtree)
TreeToDag ==
    /\ pc = "tree"
    /\ LET res == tree_to_dag(attrib, xtree)
       IN  /\ attrib' = res.attrib
           /\ xtree' = [xtree EXCEPT !.alive = res.alive]
           /\ ret' = [op |-> "tree_to_dag", err |-> res.err]
           /\ pc' = IF res.err = "" THEN "dag" ELSE "failed"
    /\ UNCHANGED <<grouped, other, cfg, ret2>>

\* group_by_parent(xtree)
GroupByParent ==
    /\ pc = "dag"
    /\ LET res == group_by_parent(attrib, xtree)
       IN  /\ grouped' = res.grouped
           /\ ret' = [op |-> "group_by_parent", err |-> res.err]
           /\ pc' = IF res.err = "" THEN "grouped" ELSE "failed"
    /\ UNCHANGED <<attrib, xtree, other, cfg, ret2>>

\* decomposer.collapse_mwu(grouped)
CollapseMwu ==
    /\ pc = "grouped"
    /\ LET res == collapse_mwu(attrib, grouped, cfg.ties)
       IN  /\ attrib' = res.attrib
           /\ grouped' = res.grouped
           /\ ret' = [op |-> "collapse_mwu", err |-> res.err]
           /\ pc' = IF res.err = "" THEN "collapsed" ELSE "failed"
    /\ UNCHANGED <<xtree, other, cfg, ret2>>

\* split_dag(grouped, cats_to_remove=['du'], rels_to_remove=...)
SplitDag ==
    /\ pc = "collapsed"
    /\ \E rels \in {rels_to_remove_default, rels_to_remove_main} :
        /\ grouped' = split_dag(attrib, grouped, {"du"}, rels)
        /\ ret' = [op |-> "split_dag", rels |-> rels]
    /\ pc' = "split"
    /\ UNCHANGED <<attrib, xtree, other, cfg, ret2>>

NextTree == FindMainCoindex \/ TreeToDag \/ GroupByParent \/ CollapseMwu \/ SplitDag

SpecTree == InitTree /\ [][NextTree]_vars

(***************************************************************************)
(* Inputs: adjacency maps with multi-word units, and collapse_mwu twice.   *)
(***************************************************************************)
\* a word of a unit, a word that is itself marked mwu, a childless phrase
MwuKinds ==
    {Leaf("name", 0, Rel("mwp", ""), NoRel),
     Leaf("name", 0, NoRel, Rel("mwp", "")),
     Leaf("adj", 0, Rel("mwp", ""), NoRel),
     Leaf("adj", 0, NoRel, Rel("mwp", "")),
     [pos |-> "", cat |-> "mwu", hasword |-> TRUE, index |-> 0,
      r1 |-> Rel("mwp", ""), r2 |-> NoRel],
     [pos |-> "", cat |-> "np", hasword |-> FALSE, index |-> 0,
      r1 |-> NoRel, r2 |-> Rel("mwp", "")],
     Absent}

MwuRoles ==
    {[lab |-> "--", cat |-> "mwu"],
     [lab |-> "obj1", cat |-> "mwu"],
     [lab |-> "--", cat |-> "np"]}

\* the iteration orders of set(sibling_types) that the inputs can tell apart
TieOrders == {<<"name", "adj">>, <<"adj", "name">>}

InitMwu ==
    \E kinds \in [LeafNodes -> MwuKinds], role \in MwuRoles, rootcat \in {"mwu", "np"},
       ties \in TieOrders, spanrev \in BOOLEAN :
        InitMap(kinds, role, rootcat, spanrev, "grouped", ties)

\* collapse_mwu on the map that collapse_mwu returned
CollapseMwuAgain ==
    /\ pc = "collapsed"
    /\ LET res == collapse_mwu(attrib, grouped, cfg.ties)
       IN  /\ attrib' = res.attrib
           /\ grouped' = res.grouped
           /\ ret2' = [op |-> "collapse_mwu", err |-> res.err,
                       before |-> [attrib |-> attrib, grouped |-> grouped]]
    /\ pc' = "collapsed twice"
    /\ UNCHANGED <<xtree, other, cfg, ret>>

NextMwu == CollapseMwu \/ CollapseMwuAgain

SpecMwu == InitMwu /\ [][NextMwu]_vars

(***************************************************************************)
(* Inputs: control constructions.  Node 1 is the clause, 2 a ti phrase, 3  *)
(* the complement, 9 a complement inside the complement; 4 and 5 are the   *)
(* coindexed words, 6, 7 and 10 the verbs and 8 the complementizer.  Node  *)
(* 11 is a second clause over the same complement, and 12 its verb.        *)
(***************************************************************************)
ControlNodes == 1..12

Opt(present, pair) == IF present THEN <<pair>> ELSE <<>>

\* the edges of the complement that holds the coindexed words
AbstractEdges(xrel, y) ==
    <<Pair(4, xrel)>> \o Opt(y # "none", Pair(5, Rel("obj1", "primary")))

ControlList(k, ti, chained, xrel_clause, xrel_comp, y, with_head) ==
    CASE k = 1 -> Opt(y = "before", Pair(5, Rel("obj1", "secondary")))
                  \o <<Pair(4, xrel_clause)>>
                  \o Opt(y = "after", Pair(5, Rel("obj1", "secondary")))
                  \o <<Pair(6, Rel("hd", ""))>>
                  \o <<Pair(IF ti THEN 2 ELSE 3, Rel("vc", ""))>>
      [] k = 2 -> IF ti THEN <<Pair(8, Rel("cmp", "")), Pair(3, Rel("body", ""))>> ELSE <<>>
      [] k = 3 -> (IF chained THEN <<>> ELSE AbstractEdges(xrel_comp, y))
                  \o Opt(with_head, Pair(7, Rel("hd", "")))
                  \o Opt(chained, Pair(9, Rel("vc", "")))
      [] k = 9 -> IF chained
                  THEN AbstractEdges(xrel_comp, y) \o <<Pair(10, Rel("hd", ""))>>
                  ELSE <<>>

ControlGrouped(ti, chained, xrel_clause, xrel_comp, y, with_head) ==
    LET keys == <<1, 2, 3, 9>>
        all == [i \in DOMAIN keys |->
                   [k |-> keys[i],
                    ch |-> ControlList(keys[i], ti, chained, xrel_clause, xrel_comp,
                                       y, with_head)]]
    IN  Keep(all, {i \in DOMAIN all : all[i].ch # <<>>})

\* the map with a second clause that holds the coindexed word 4 on a
\* secondary edge, its key before or after the other keys
WithClause(g, second, xrel, ti) ==
    LET key == [k |-> 11,
                ch |-> <<Pair(4, xrel), Pair(12, Rel("hd", "")),
                         Pair(IF ti THEN 2 ELSE 3, Rel("vc", ""))>>]
    IN  CASE second = "first" -> <<key>> \o g
          [] second = "last" -> g \o <<key>>
          [] OTHER -> g

ControlAttrib(g, clause, comp) ==
    [n \in ControlNodes |->
        [id |-> n,
         cat |-> CASE n = 1 -> clause [] n = 2 -> "ti" [] n = 3 -> comp
                   [] n = 9 -> "inf" [] n = 11 -> "ssub" [] OTHER -> "",
         pos |-> CASE n = 4 -> "pron" [] n = 5 -> "noun" [] n = 8 -> "comp"
                   [] n \in {6, 7, 10, 12} -> "verb" [] OTHER -> "",
         hasword |-> n \in {4, 5, 6, 7, 8, 10, 12},
         word |-> IF n \in {4, 5, 6, 7, 8, 10, 12} THEN WordOf(n) ELSE <<>>,
         index |-> CASE n = 4 -> 1 [] n = 5 -> 2 [] OTHER -> 0,
         begin |-> n,
         end |-> n + 1,
         rel |-> EdgesOf(g, n),
         relstr |-> ""]]

InitControl ==
    \E ti \in BOOLEAN, chained \in BOOLEAN, with_head \in BOOLEAN,
       xrel_clause \in {Rel("su", "secondary"), Rel("obj1", "secondary")},
       xrel_comp \in {Rel("su", "primary"), Rel("obj1", "primary")},
       y \in {"none", "before", "after"},
       clause \in {"smain", "ssub"}, comp \in {"inf", "ppart"},
       second \in {"none", "first", "last"} :
        /\ grouped = WithClause(ControlGrouped(ti, chained, xrel_clause, xrel_comp, y,
                                               with_head), second, xrel_clause, ti)
        /\ attrib = ControlAttrib(grouped, clause, comp)
        /\ other = grouped
        /\ xtree = <<>>
        /\ cfg = DefaultCfg
        /\ pc = "split"
        /\ ret = NoRet
        /\ ret2 = NoRet

\* abstract_object_to_subject(grouped)
AbstractObjectToSubject ==
    /\ pc = "split"
    /\ LET res == abstract_object_to_subject(attrib, grouped)
       IN  /\ attrib' = res.attrib
           /\ grouped' = res.grouped
           /\ ret' = [op |-> "abstract_object_to_subject", err |-> res.err]
           /\ pc' = IF res.err = "" THEN "relabelled" ELSE "failed"
    /\ UNCHANGED <<xtree, other, cfg, ret2>>

\* remove_abstract_so(grouped)
RemoveAbstractSo ==
    /\ pc = "relabelled"
    /\ LET res == remove_abstract_so(attrib, grouped)
       IN  /\ attrib' = res.attrib
           /\ grouped' = res.grouped
           /\ ret' = [op |-> "remove_abstract_so", err |-> res.err]
           /\ pc' = IF res.err = "" THEN "removed" ELSE "failed"
    /\ UNCHANGED <<xtree, other, cfg, ret2>>

NextControl == AbstractObjectToSubject \/ RemoveAbstractSo \/ DecomposeCall

SpecControl == InitControl /\ [][NextControl]_vars

(***************************************************************************)
(* Inputs: adjacency maps with heads on secondary edges and with a phrase  *)
(* attached by a tagged edge, as tree_to_dag and split_dag leave them.     *)
(***************************************************************************)
\* a word under the first phrase, the second, or both; a coindexed head has
\* one primary and one secondary edge, or the secondary edge alone where
\* split_dag cut the primary one
GapKinds ==
    {Leaf("verb", 0, Rel("hd", ""), NoRel),
     Leaf("verb", 0, NoRel, Rel("hd", "")),
     Leaf("noun", 0, Rel("su", ""), NoRel),
     Leaf("noun", 0, NoRel, Rel("su", "")),
     Leaf("verb", 1, Rel("hd", "primary"), Rel("hd", "secondary")),
     Leaf("verb", 1, Rel("hd", "secondary"), Rel("hd", "primary")),
     Leaf("verb", 1, Rel("hd", "secondary"), NoRel),
     Leaf("pron", 2, Rel("su", "primary"), Rel("su", "secondary")),
     Leaf("pron", 2, Rel("su", "secondary"), Rel("su", "primary")),
     Absent}

\* the second phrase: a root of its own, or a child of the first on a plain,
\* a primary or a secondary edge
GapRoles ==
    {[lab |-> "--", tag |-> "", cat |-> "smain"],
     [lab |-> "--", tag |-> "", cat |-> "np"]}
    \cup [lab : {"hd", "su"}, tag : {"", "primary", "secondary"}, cat : {"np"}]

InitGap ==
    \E kinds \in [LeafNodes -> GapKinds], role \in GapRoles, spanrev \in BOOLEAN :
        /\ \A n \in LeafNodes : n > 2 + ForestLeaves => kinds[n] = Absent
        /\ \A m, n \in LeafNodes :
              (m # n /\ kinds[m].index # 0) => kinds[m].index # kinds[n].index
        /\ InitInput(kinds, role, "smain", spanrev)

NextGap == Assign \/ DecomposeCall

SpecGap == InitGap /\ [][NextGap]_vars

(***************************************************************************)
(* Inputs: adjacency maps for split_dag.  Node 1 is the top node, under    *)
(* the key None; the nodes after it are phrases, each under an earlier     *)
(* node; every one of them may have a word of its own as a child.          *)
(***************************************************************************)
\* the phrases beneath the top node
SplitPhrases == 3

SplitKeys == 1..(1 + SplitPhrases)

\* the word under node q
LeafUnder(q) == 1 + SplitPhrases + q

\* the parent of every phrase
SplitShapes ==
    {par \in [SplitKeys \ {1} -> SplitKeys] : \A p \in SplitKeys \ {1} : par[p] < p}

\* the child list of q: its phrases in ascending order, then its word on an
\* edge with the label leaf[q], if any
SplitList(q, par, leaf) ==
    LET under == {p \in SplitKeys \ {1} : par[p] = q}
        order == Sorted(CHOOSE o \in Orderings(under) : TRUE, <)
    IN  [i \in DOMAIN order |-> Pair(order[i], Rel("body", ""))]
        \o Opt(leaf[q] # "", Pair(LeafUnder(q), Rel(leaf[q], "")))

SplitGrouped(par, leaf) ==
    <<[k |-> 0, ch |-> <<Pair(1, Rel("top", ""))>>]>>
    \o [q \in SplitKeys |-> [k |-> q, ch |-> SplitList(q, par, leaf)]]

SplitAttrib(g, cats) ==
    [n \in 1..(2 * SplitPhrases + 2) |->
        [id |-> n,
         cat |-> IF n = 1 THEN "top" ELSE IF n \in SplitKeys THEN cats[n] ELSE "",
         pos |-> IF n \in SplitKeys THEN "" ELSE "noun",
         hasword |-> n \notin SplitKeys,
         word |-> IF n \in SplitKeys THEN <<>> ELSE WordOf(n),
         index |-> 0,
         begin |-> n,
         end |-> n + 1,
         rel |-> EdgesOf(g, n),
         relstr |-> ""]]

InitSplit ==
    \E par \in SplitShapes, leaf \in [SplitKeys -> {"hd", "--", ""}],
       cats \in [SplitKeys \ {1} -> {"np", "du"}] :
        /\ \A q \in SplitKeys : leaf[q] = "" => \E p \in SplitKeys \ {1} : par[p] = q
        /\ grouped = SplitGrouped(par, leaf)
        /\ attrib = SplitAttrib(SplitGrouped(par, leaf), cats)
        /\ other = SplitGrouped(par, leaf)
        /\ xtree = <<>>
        /\ cfg = DefaultCfg
        /\ pc = "collapsed"
        /\ ret = NoRet
        /\ ret2 = NoRet

NextSplit == SplitDag

SpecSplit == InitSplit /\ [][NextSplit]_vars

(***************************************************************************)
(* Inputs: one key over a child list of plain and tagged edges, for        *)
(* choose_head.                                                            *)
(***************************************************************************)
\* the longest child list
MaxChildren == 3

\* the edges of a child list: a bare label, or a label tagged primary or
\* secondary
HeadRels == [lab : {"hd", "cmp", "crd", "cnj", "su"}, tag : {"", "primary", "secondary"}]

\* the child list with the given edges: the i-th child is node 1 + i
HeadList(rels) == [i \in DOMAIN rels |-> Pair(1 + i, rels[i])]

HeadAttrib(g) ==
    [n \in 1..(1 + MaxChildren) |->
        [id |-> n,
         cat |-> IF n = 1 THEN "conj" ELSE "",
         pos |-> IF n = 1 THEN "" ELSE "noun",
         hasword |-> n # 1,
         word |-> IF n = 1 THEN <<>> ELSE WordOf(n),
         index |-> IF n \in AllChildren(g) /\ EdgesOf(g, n)[1].tag # "" THEN n ELSE 0,
         begin |-> n,
         end |-> n + 1,
         rel |-> EdgesOf(g, n),
         relstr |-> ""]]

InitHead ==
    \E len \in 1..MaxChildren : \E rels \in [1..len -> HeadRels] :
        /\ grouped = <<[k |-> 1, ch |-> HeadList(rels)]>>
        /\ attrib = HeadAttrib(<<[k |-> 1, ch |-> HeadList(rels)]>>)
        /\ other = <<>>
        /\ xtree = <<>>
        /\ cfg = DefaultCfg
        /\ pc = "input"
        /\ ret = NoRet
        /\ ret2 = NoRet

NextHead == ChooseHead

SpecHead == InitHead /\ [][NextHead]_vars

(***************************************************************************)
(* Inputs: maps for remove_abstract_so.  Node 1 is the clause and 3 its    *)
(* complement; the complement holds abstract copies of the clause's        *)
(* arguments 4 and 5 on secondary edges, its head 7 and a modifier 8, in   *)
(* any order.                                                              *)
(***************************************************************************)
\* the edge of the complement to its child n
AbstractEdge(n) ==
    CASE n = 4 -> Pair(4, Rel("su", "secondary"))
      [] n = 5 -> Pair(5, Rel("obj1", "secondary"))
      [] n = 7 -> Pair(7, Rel("hd", ""))
      [] n = 8 -> Pair(8, Rel("mod", "secondary"))

\* the child lists of the complement: every ordering of some of its children
ComplementLists ==
    UNION {{[i \in DOMAIN o |-> AbstractEdge(o[i])] : o \in Orderings(S)} :
              S \in SUBSET {4, 5, 7, 8} \ {{}}}

\* the clause: its arguments on primary edges, a word on a secondary su
\* edge, its head and the complement
RemoveGrouped(list) ==
    LET under == {list[i].c : i \in DOMAIN list}
    IN  <<[k |-> 1,
           ch |-> Opt(4 \in under, Pair(4, Rel("su", "primary")))
                  \o Opt(5 \in under, Pair(5, Rel("obj1", "primary")))
                  \o Opt(8 \in under, Pair(8, Rel("mod", "primary")))
                  \o <<Pair(10, Rel("su", "secondary")), Pair(6, Rel("hd", "")),
                       Pair(3, Rel("vc", ""))>>],
          [k |-> 3, ch |-> list]>>

RemoveAttrib(g, comp) ==
    [n \in ControlNodes |->
        [ControlAttrib(g, "smain", comp)[n] EXCEPT
            !.index = IF n \in {4, 5, 8, 10} THEN n ELSE 0]]

InitRemove ==
    \E list \in ComplementLists, comp \in {"inf", "ppart"} :
        /\ grouped = RemoveGrouped(list)
        /\ attrib = RemoveAttrib(RemoveGrouped(list), comp)
        /\ other = RemoveGrouped(list)
        /\ xtree = <<>>
        /\ cfg = DefaultCfg
        /\ pc = "relabelled"
        /\ ret = NoRet
        /\ ret2 = NoRet

NextRemove == RemoveAbstractSo

SpecRemove == InitRemove /\ [][NextRemove]_vars

(***************************************************************************)
(* Claims.                                                                 *)
(***************************************************************************)
\* the pairs of a child list whose label is a head candidate
HeadPairs(list) == {i \in DOMAIN list : list[i].r.lab \in head_candidates}

\* t is a functor over exactly the siblings: some one-to-one matching pairs
\* every argument with a sibling's type_dict entry and label
FunctorOver(t, sibs, result) ==
    /\ t.lab = ""
    /\ t.result = <<result>>
    /\ ~t.modality
    /\ Len(t.arglist) = Len(sibs)
    /\ Len(t.colors) = Len(sibs)
    /\ \E m \in Orderings(DOMAIN sibs) :
          \A i \in DOMAIN sibs :
              /\ t.arglist[i] = Atom(type_labels[attrib[sibs[m[i]].c].pos])
              /\ t.colors[i] = sibs[m[i]].r.lab

\* the case of C1: a key whose children are one leaf head and leaf siblings
\* on primary edges
FlatCase(k) ==
    LET list == ChildList(grouped, k)
    IN  /\ Cardinality(HeadPairs(list)) = 1
        /\ \A i \in DOMAIN list : attrib[list[i].c].hasword /\ list[i].r.tag # "secondary"

\* C1: for a root whose children are one leaf head and leaf non-head siblings
\* on primary edges, recursive_assignment with no inherited top type gives the
\* head the functor from the siblings' plain types (colored by their relation
\* labels) to the root's plain type, gives every sibling its plain type, and
\* writes nothing else.
C1_FlatAssignment ==
    (ret.op = "recursive_assignment" /\ FlatCase(ret.current)) =>
        LET list == ChildList(grouped, ret.current)
            h == CHOOSE i \in HeadPairs(list) : TRUE
            sibs == Keep(list, DOMAIN list \ {h})
            lex == ret.res.lex
        IN  /\ ret.res.err = ""
            /\ DOMAIN lex = {get_key(attrib, list[i].c) : i \in DOMAIN list}
            /\ FunctorOver(lex[get_key(attrib, list[h].c)], sibs,
                           Atom(type_labels[attrib[ret.current].cat]))
            /\ \A i \in DOMAIN sibs :
                  lex[get_key(attrib, sibs[i].c)] = Atom(type_labels[attrib[sibs[i].c].pos])

\* the example of the specification: smain over (Jan, su) and (loopt, hd)
C1_Witness ==
    /\ ret.op = "recursive_assignment"
    /\ attrib[1].cat = "smain"
    /\ grouped = <<[k |-> 1, ch |-> <<Pair(3, Rel("su", "")), Pair(4, Rel("hd", ""))>>]>>
    /\ ret.res.err = ""
    /\ ret.res.lex = [key \in {<<"a", "b", "~", "3">>, <<"b", "~", "4">>} |->
                         IF key = <<"b", "~", "4">>
                         THEN [arglist |-> <<Atom("NP")>>, result |-> <<Atom("S")>>,
                               lab |-> "", modality |-> FALSE, colors |-> <<"su">>]
                         ELSE Atom("NP")]

\* a child that is no key and carries no word
Malformed(g) == \E x \in AllChildren(g) \ Keys(g) : ~attrib[x].hasword

\* C5: get_disconnected fails on its integrity check, returning no roots,
\* exactly when some child that is never a key has no word; a call of the
\* Decompose object then starts no assignment.
C5_LeafCheck ==
    /\ ret.op = "get_disconnected" =>
          /\ (ret.res.err = "AssertionError") <=> Malformed(grouped)
          /\ ret.res.err # "" => ret.res.roots = {} /\ ret.res.err = "AssertionError"
    /\ ret.op = "call" =>
          /\ (ret.res.err = "AssertionError") <=> Malformed(grouped)
          /\ Malformed(grouped) => ret.res.started = <<>> /\ ret.res.value = <<>>

C5_Witness ==
    /\ ret.op = "get_disconnected"
    /\ Malformed(grouped)
    /\ ret.res.err = "AssertionError"

\* the lexica of an outcome, whatever the order of the roots
Outcome(r) ==
    [err |-> r.res.err,
     lexica |-> IF r.res.err = "" /\ ~cfg.unify THEN Range(r.res.value) ELSE {r.res.value}]

\* C7 as claimed: Decompose gives the same outcome on the map and on the copy
\* with reordered child lists, whatever the order of the roots.
C7_Deterministic ==
    (pc = "done" /\ ret.op = "call" /\ ret2.op = "call") => Outcome(ret) = Outcome(ret2)

\* a child list in which no label is a head candidate, crd or cnj
Headless(list) ==
    \A i \in DOMAIN list : list[i].r.lab \notin head_candidates \cup {"crd", "cnj"}

\* C8: on a child list without head candidate, crd or cnj, choose_head raises
\* the headless-structure error and returns no head, and the recursive
\* assignment of that node fails with it and leaves the lexicon as it was.
C8_Headless ==
    /\ (ret.op = "choose_head" /\ Headless(ChildList(grouped, ret.current))) =>
          ret.res.err = HeadlessError /\ ret.res.head = 0
    /\ (ret.op = "recursive_assignment" /\ Headless(ChildList(grouped, ret.current))) =>
          /\ ret.res.err = HeadlessError
          /\ ret.res.at = ret.current
          /\ ret.res.lex = EmptyLexicon

\* the example of the specification: only mod and app
C8_Witness ==
    /\ ret.op = "recursive_assignment"
    /\ {ChildList(grouped, ret.current)[i].r.lab :
            i \in DOMAIN ChildList(grouped, ret.current)} = {"mod", "app"}
    /\ ret.res.err = HeadlessError

\* the roots: the keys that stand in no child list
RootSet(g) == {k \in Keys(g) : \A i \in DOMAIN g : \A j \in DOMAIN g[i].ch : g[i].ch[j].c # k}

\* the exceptions of recursive_assignment and get_disconnected
AssignmentErrors ==
    {HeadlessError, ConflictError, PrematureError, "NotImplementedError", "KeyError",
     "IndexError", "RecursionError", "AssertionError"}

\* C10 as claimed: the assignment is started once at each root and nowhere
\* else; unless get_disconnected or an assignment raises, the call returns
\* one lexicon per root (non-unified) or one lexicon for all roots (unified),
\* as lists and as mappings.
C10_CallOutput ==
    ret.op = "call" =>
        /\ Range(ret.res.started) \subseteq RootSet(grouped)
        /\ \A i, j \in DOMAIN ret.res.started :
              i # j => ret.res.started[i] # ret.res.started[j]
        /\ ret.res.err \in AssignmentErrors \cup {""}
        /\ ret.res.err = "" =>
              /\ Range(ret.res.started) = RootSet(grouped)
              /\ ~cfg.unify => Len(ret.res.value) = Cardinality(RootSet(grouped))


\* the members of the coindex group x that carry cat or word
Candidates(x) == {n \in DOMAIN xtree.par : attrib[n].index = x /\ HasContent(attrib, n)}

\* the indices that occur in the tree
Indices == {attrib[n].index : n \in DOMAIN xtree.par} \ {0}

Succ(g, n) == UNION {{g[i].ch[j].c : j \in DOMAIN g[i].ch} : i \in {i2 \in DOMAIN g : g[i2].k = n}}

RECURSIVE ReachableFrom(_, _, _)
\* the nodes on a path of zero or more edges from a node of frontier
ReachableFrom(g, frontier, seen) ==
    IF frontier \subseteq seen THEN seen
    ELSE ReachableFrom(g, UNION {Succ(g, n) : n \in frontier}, seen \cup frontier)

\* no path of one or more edges leads from a node back to itself
Acyclic(g) == \A n \in Keys(g) : n \notin ReachableFrom(g, Succ(g, n), {})

\* C4 as claimed: the adjacency map after tree_to_dag, group_by_parent,
\* collapse_mwu and split_dag has no path from a node back to itself.
C4_Acyclic == pc = "split" => Acyclic(grouped)


\* C6: collapse_mwu is idempotent: after a first application that succeeds
\* no key has cat mwu, and a second application succeeds and changes neither
\* the keys, nor a child list, nor the word or cat of a node.
C6_Idempotent ==
    /\ pc \in {"collapsed", "collapsed twice"} =>
          \A k \in Keys(grouped) : ~IsMwuKey(attrib, k)
    /\ ret2.op = "collapse_mwu" =>
          /\ ret2.err = ""
          /\ grouped = ret2.before.grouped
          /\ attrib = ret2.before.attrib

\* two units were collapsed by the first application, and the second ran
C6_Witness ==
    /\ ret2.op = "collapse_mwu"
    /\ attrib[1].word = <<"A", "b", " ", "b", "~", "A">>
    /\ attrib[2].word = <<"b">>
    /\ attrib[1].cat \in {"name", "adj"}
    /\ Keys(grouped) = {}


\* the labels of the edges from k to x in the map g
EdgesTo(g, k, x) ==
    IF k \notin Keys(g) THEN <<>>
    ELSE LET list == ChildList(g, k)
             at == Keep(list, {i \in DOMAIN list : list[i].c = x})
         IN  [i \in DOMAIN at |-> at[i].r]

\* the complements of clause k in the map g: its inf and ppart children, and
\* those of its ti children
Complements(g, k) ==
    LET direct(p) == IF p \notin Keys(g) THEN {}
                     ELSE {ChildList(g, p)[i].c : i \in DOMAIN ChildList(g, p)}
    IN  {c \in direct(k) \cup UNION {direct(t) : t \in {t2 \in direct(k) : attrib[t2].cat = "ti"}} :
            attrib[c].cat \in {"inf", "ppart"}}

\* the case of C2 in the map the pipeline started from: clause k has a
\* secondary su edge to x, and its complement c a primary su edge to x
ControlCase(k, c, x) ==
    /\ k \in Keys(other)
    /\ attrib[k].cat \in {"ssub", "smain", "sv1"}
    /\ \E i \in DOMAIN EdgesTo(other, k, x) : EdgesTo(other, k, x)[i] = Rel("su", "secondary")
    /\ c \in Complements(other, k)
    /\ \E i \in DOMAIN EdgesTo(other, c, x) : EdgesTo(other, c, x)[i] = Rel("su", "primary")

\* the entries for the word x in the lexica a call returned as mappings
EntriesFor(value, x) ==
    {i \in DOMAIN value : get_key(attrib, x) \in DOMAIN value[i]}

\* C2 as claimed: after abstract_object_to_subject and remove_abstract_so the
\* clause has exactly one edge to X and it is tagged (su, primary), the
\* complement has no edge to X, and the type assignment that follows gives
\* exactly one lexicon key for X.
C2_Control ==
    \A k, c, x \in DOMAIN attrib :
        ControlCase(k, c, x) =>
            /\ pc # "failed"
            /\ pc \in {"removed", "called"} =>
                  /\ EdgesTo(grouped, k, x) = <<Rel("su", "primary")>>
                  /\ EdgesTo(grouped, c, x) = <<>>
            /\ (pc = "called" /\ ~cfg.return_lists) =>
                  /\ ret.res.err = ""
                  /\ \/ cfg.unify /\ get_key(attrib, x) \in DOMAIN ret.res.value
                     \/ ~cfg.unify /\ Cardinality(EntriesFor(ret.res.value, x)) = 1


\* the leaves of the map among the given words, in ascending (begin, end, id)
LeavesIn(words) ==
    LET leaves == {n \in AllChildren(grouped) : attrib[n].hasword /\ n \in words}
        Less(m, n) == SpanLess(attrib, m, n)
    IN  Sorted(CHOOSE s \in Orderings(leaves) : TRUE, Less)

\* the pairs C9 describes: for every such leaf its key without the separator
\* and the identifier, and the type of its entry without the colors
ExpectedPairs(words) ==
    [i \in DOMAIN LeavesIn(words) |->
        <<text_pipeline(attrib[LeavesIn(words)[i]].word),
          remove_deps(SomeLexicon(attrib, words)[get_key(attrib, LeavesIn(words)[i])])>>]

\* C9 as claimed: lexicon_to_list returns one (word, type) pair for each leaf
\* of the map whose key is in the lexicon and no other, in ascending order of
\* (begin, end, id), the word being the key without separator and identifier.
C9_LexiconToList ==
    ret.op = "lexicon_to_list" =>
        IF ret.to_sequences
        THEN /\ ret.res[1] = [i \in DOMAIN ExpectedPairs(ret.words) |->
                                 ExpectedPairs(ret.words)[i][1]]
             /\ ret.res[2] = [i \in DOMAIN ExpectedPairs(ret.words) |->
                                 ExpectedPairs(ret.words)[i][2]]
        ELSE ret.res = ExpectedPairs(ret.words)

\* the main node of the coindex group x: its first member with cat or word
MainOf(x) == CHOOSE n \in Candidates(x) : \A m \in Candidates(x) : n <= m

\* the members of the coindex group x that are not its main node
Duplicates(x) == {n \in DOMAIN xtree.par : attrib[n].index = x /\ n # MainOf(x)}

\* the ids of the parents under which node n holds an edge with the tag
EdgeParents(n, tag) == {p \in DOMAIN attrib[n].rel : attrib[n].rel[p].tag = tag}

\* the id of the structural parent of element n
ParentId(n) == attrib[xtree.par[n]].id

\* no two elements of the tree share an index, and no duplicate is left in it
DuplicatesRemoved ==
    /\ \A m, n \in xtree.alive :
          (m # n /\ attrib[m].index # 0) => attrib[m].index # attrib[n].index
    /\ \A x \in Indices : Duplicates(x) \cap xtree.alive = {}

\* C11 as claimed: when tree_to_dag has returned, no two remaining elements
\* share an index, every duplicate has left the tree, and the main node of
\* each group holds one primary edge, to its structural parent, and one
\* secondary edge with the duplicate's original label for each parent from
\* which a duplicate was removed.
C11_EdgePerDuplicateParent ==
    pc = "dag" =>
        /\ DuplicatesRemoved
        /\ \A x \in Indices :
              /\ EdgeParents(MainOf(x), "primary") = {ParentId(MainOf(x))}
              /\ EdgeParents(MainOf(x), "secondary") = {ParentId(d) : d \in Duplicates(x)}
              /\ \A p \in EdgeParents(MainOf(x), "secondary") :
                    \E d \in Duplicates(x) :
                        ParentId(d) = p /\ attrib[MainOf(x)].rel[p].lab = attrib[d].relstr

\* the first duplicate of the group x, in document order, under the parent
\* with id p
FirstDuplicate(x, p) ==
    CHOOSE d \in Duplicates(x) :
        /\ ParentId(d) = p
        /\ \A e \in Duplicates(x) : ParentId(e) = p => d <= e

\* C11 as amended: when tree_to_dag has returned, no two remaining elements
\* share an index, every duplicate has left the tree, and the main node of
\* each group holds one primary edge, to its structural parent, and one
\* secondary edge for each other parent from which a duplicate was removed,
\* with the original label of the first duplicate removed from that parent;
\* it holds no other edge.
C11_EdgePerOtherParent ==
    pc = "dag" =>
        /\ DuplicatesRemoved
        /\ \A x \in Indices :
              /\ EdgeParents(MainOf(x), "primary") = {ParentId(MainOf(x))}
              /\ EdgeParents(MainOf(x), "secondary") =
                    {ParentId(d) : d \in Duplicates(x)} \ {ParentId(MainOf(x))}
              /\ DOMAIN attrib[MainOf(x)].rel =
                    EdgeParents(MainOf(x), "primary") \cup EdgeParents(MainOf(x), "secondary")
              /\ \A p \in EdgeParents(MainOf(x), "secondary") :
                    attrib[MainOf(x)].rel[p].lab = attrib[FirstDuplicate(x, p)].relstr

\* a main node with a duplicate under its own parent and a duplicate under
\* another parent
C11_Witness ==
    /\ pc = "dag"
    /\ \E x \in Indices : \E d, e \in Duplicates(x) :
          /\ ParentId(d) = ParentId(MainOf(x))
          /\ ParentId(e) # ParentId(MainOf(x))
          /\ EdgeParents(MainOf(x), "secondary") = {ParentId(e)}

\* the place of the head choose_head takes from a list with a head candidate
ChosenHead(list) == CHOOSE i \in HeadPairs(list) : \A j \in HeadPairs(list) : i <= j

\* the leaf non-head siblings of a list that hang on a secondary edge
SecondarySiblings(list) ==
    {i \in DOMAIN list : /\ list[i].r.tag = "secondary"
                         /\ attrib[list[i].c].hasword
                         /\ (HeadPairs(list) # {} => i # ChosenHead(list))}

\* a key with a head candidate whose children are all leaves
FlatKey(g, k) ==
    /\ k \in Keys(g)
    /\ HeadPairs(ChildList(g, k)) # {}
    /\ \A i \in DOMAIN ChildList(g, k) : attrib[ChildList(g, k)[i].c].hasword

\* a flat key with a leaf sibling on a secondary edge
PrematureCase(g, k) == FlatKey(g, k) /\ SecondarySiblings(ChildList(g, k)) # {}

\* every secondary sibling of k is a child of p on a primary edge
PrimaryUnder(g, k, p) ==
    \A i \in SecondarySiblings(ChildList(g, k)) :
        \E j \in DOMAIN ChildList(g, p) :
            /\ ChildList(g, p)[j].c = ChildList(g, k)[i].c
            /\ ChildList(g, p)[j].r.tag = "primary"

\* C12: recursive_assignment raises the premature-secondary error at a leaf
\* non-head sibling on a secondary edge whose key is not in the lexicon, and
\* writes no entry for it.  It does so at a key whose secondary sibling has
\* its primary edge elsewhere, at the first root of a call, and at every
\* such root when each root has a lexicon of its own; it does not when the
\* head, visited first, holds the primary edge.
C12_PrematureSecondary ==
    /\ (ret.op = "recursive_assignment" /\ ret.res.err = PrematureError) =>
          \E i \in SecondarySiblings(ChildList(grouped, ret.res.at)) :
              get_key(attrib, ChildList(grouped, ret.res.at)[i].c) \notin DOMAIN ret.res.lex
    /\ (ret.op = "recursive_assignment" /\ PrematureCase(grouped, ret.current)) =>
          /\ ret.res.err = PrematureError
          /\ ret.res.at = ret.current
          /\ \A i \in SecondarySiblings(ChildList(grouped, ret.current)) :
                get_key(attrib, ChildList(grouped, ret.current)[i].c) \notin DOMAIN ret.res.lex
    /\ (ret.op = "recursive_assignment" /\ ret.current = 1 /\ FlatKey(grouped, 2)
        /\ SecondarySiblings(ChildList(grouped, 1)) # {}
        /\ Pair(2, Rel("hd", "")) \in Range(ChildList(grouped, 1))
        /\ SecondarySiblings(ChildList(grouped, 2)) = {}
        /\ PrimaryUnder(grouped, 1, 2)) =>
          ret.res.err = ""
    /\ (ret.op = "call" /\ ret.top_nodes # <<>> /\ ret.res.err # "AssertionError") =>
          /\ PrematureCase(grouped, ret.top_nodes[1]) => ret.res.err = PrematureError
          /\ (~cfg.unify /\ \E k \in Range(ret.top_nodes) : PrematureCase(grouped, k)) =>
                ret.res.err # ""

\* two roots sharing a lexicon, the root with the secondary edge visited first
C12_Witness ==
    /\ ret.op = "call"
    /\ cfg.unify
    /\ Len(ret.top_nodes) = 2
    /\ PrematureCase(grouped, ret.top_nodes[1])
    /\ PrimaryUnder(grouped, ret.top_nodes[1], ret.top_nodes[2])
    /\ ret.res.err = PrematureError

\* phrase 2 is a child of phrase 1, not as its head, on an edge with the tag
PhraseSibling(tags) ==
    /\ {1, 2} \subseteq Keys(grouped)
    /\ \E i \in DOMAIN ChildList(grouped, 1) :
          /\ ChildList(grouped, 1)[i].c = 2
          /\ ChildList(grouped, 1)[i].r.tag \in tags
          /\ HeadPairs(ChildList(grouped, 1)) # {}
          /\ i # ChosenHead(ChildList(grouped, 1))

\* the children of phrase 1 other than phrase 2 are words, none of them on a
\* secondary edge unless it is the head
PlainBesides ==
    \A i \in DOMAIN ChildList(grouped, 1) :
        ChildList(grouped, 1)[i].c # 2 =>
            /\ attrib[ChildList(grouped, 1)[i].c].hasword
            /\ (ChildList(grouped, 1)[i].r.tag = "secondary" =>
                    i = ChosenHead(ChildList(grouped, 1)))

\* the words that hang under phrase 2 only
OnlyUnder2 == {n \in AllChildren(grouped) : n \notin Range([i \in DOMAIN ChildList(grouped, 1) |->
                                                        ChildList(grouped, 1)[i].c])}

\* C13: at an internal non-head sibling on a secondary edge
\* recursive_assignment raises NotImplementedError and writes nothing for the
\* words beneath it; an internal non-head sibling on a plain or primary edge
\* is recursed into with no inherited top type, so that its head gets a
\* functor whose result is the sibling's own plain type.
C13_InternalSibling ==
    ret.op = "recursive_assignment" /\ ret.current = 1 =>
        /\ PhraseSibling({"secondary"}) =>
              /\ ret.res.err # ""
              /\ PlainBesides => ret.res.err = "NotImplementedError" /\ ret.res.at = 1
              /\ \A n \in OnlyUnder2 : get_key(attrib, n) \notin DOMAIN ret.res.lex
        /\ (PhraseSibling({"", "primary"}) /\ PlainBesides) =>
              /\ ret.res.err \notin {"NotImplementedError"}
              /\ (/\ FlatKey(grouped, 2)
                  /\ ret.res.err = ""
                  /\ ChildList(grouped, 2)[ChosenHead(ChildList(grouped, 2))].c \in OnlyUnder2) =>
                    LET list == ChildList(grouped, 2)
                        key == get_key(attrib, list[ChosenHead(list)].c)
                    IN  /\ key \in DOMAIN ret.res.lex
                        /\ ret.res.lex[key].result = <<Atom(type_labels[attrib[2].cat])>>

\* a phrase over its head word, attached to the clause by a secondary su edge
C13_Witness ==
    /\ ret.op = "recursive_assignment"
    /\ ret.current = 1
    /\ PhraseSibling({"secondary"})
    /\ FlatKey(grouped, 2)
    /\ ret.res.err = "NotImplementedError"
    /\ DOMAIN ret.res.lex # {}

\* both phrases are roots over words on plain or primary edges, apart from
\* one word that is the head of both, under one by a secondary edge
SharedHeadCase ==
    /\ {1, 2} \subseteq RootSet(grouped)
    /\ FlatKey(grouped, 1) /\ FlatKey(grouped, 2)
    /\ SecondarySiblings(ChildList(grouped, 1)) = {}
    /\ SecondarySiblings(ChildList(grouped, 2)) = {}
    /\ ChildList(grouped, 1)[ChosenHead(ChildList(grouped, 1))].c =
          ChildList(grouped, 2)[ChosenHead(ChildList(grouped, 2))].c
    /\ \E k \in {1, 2} : ChildList(grouped, k)[ChosenHead(ChildList(grouped, k))].r.tag = "secondary"

\* the type constructed for the head of root k, without the modality marker
ConstructedAt(k) ==
    LET key == get_key(attrib, ChildList(grouped, k)[ChosenHead(ChildList(grouped, k))].c)
        lex == recursive_assignment(attrib, grouped, cfg.ties, k, NoneType, EmptyLexicon,
                                    MaxRecursion).lex
    IN  [lex[key] EXCEPT !.modality = FALSE]

\* C14 as claimed: when the head word of a root already holds a type from
\* the root visited before, the assignment succeeds if the two constructed
\* types are equal up to the modality marker, whichever of the primary and
\* the secondary edge was visited first, and the type-conflict error is
\* raised only when they differ.
C14_HeadRevisit ==
    (ret.op = "call" /\ cfg.unify /\ ~cfg.return_lists /\ SharedHeadCase) =>
        /\ ConstructedAt(1) = ConstructedAt(2) => ret.res.err = ""
        /\ ret.res.err = ConflictError => ConstructedAt(1) # ConstructedAt(2)

\* the keys of the map before split_dag that are keys no more
DeletedKeys == Keys(other) \ Keys(grouped)

\* C15 as claimed: when split_dag has returned, no key has an empty child
\* list and no child list holds an edge to a node that was deleted as a key.
C15_NoDanglingEdge ==
    pc = "split" =>
        \A i \in DOMAIN grouped :
            /\ grouped[i].ch # <<>>
            /\ \A j \in DOMAIN grouped[i].ch : grouped[i].ch[j].c \notin DeletedKeys

\* C16: on a child list with a head candidate choose_head returns the first
\* pair, in the order of the list, whose label (the label alone for a tagged
\* edge) is a head candidate, whatever the labels of the later pairs.
C16_FirstCandidate ==
    (ret.op = "choose_head" /\ HeadPairs(ChildList(grouped, ret.current)) # {}) =>
        LET list == ChildList(grouped, ret.current)
            first == CHOOSE i \in DOMAIN list :
                         /\ list[i].r.lab \in {"hd", "rhd", "whd", "cmp", "crd", "dlink"}
                         /\ \A j \in 1..(i - 1) :
                               list[j].r.lab \notin {"hd", "rhd", "whd", "cmp", "crd", "dlink"}
        IN  /\ ret.res.err = ""
            /\ ret.res.head = list[first].c
            /\ ret.res.rel = list[first].r

\* a cmp child on a secondary edge is returned although an hd child follows
C16_Witness ==
    /\ ret.op = "choose_head"
    /\ Len(ChildList(grouped, 1)) >= 3
    /\ ChildList(grouped, 1)[1].r.lab = "su"
    /\ ChildList(grouped, 1)[2].r = Rel("cmp", "secondary")
    /\ ChildList(grouped, 1)[3].r.lab = "hd"
    /\ ret.res.head = ChildList(grouped, 1)[2].c
    /\ ret.res.rel = Rel("cmp", "secondary")

\* the places of the cnj edges of a list, plain or tagged
CnjPairs(list) == {i \in DOMAIN list : list[i].r.lab = "cnj"}

\* C17 as claimed: on a child list without head candidate that holds a cnj
\* edge, plain or tagged, choose_head returns the first cnj child and does
\* not raise.
C17_CnjFallback ==
    (/\ ret.op = "choose_head"
     /\ HeadPairs(ChildList(grouped, ret.current)) = {}
     /\ CnjPairs(ChildList(grouped, ret.current)) # {}) =>
        LET list == ChildList(grouped, ret.current)
            first == CHOOSE i \in CnjPairs(list) : \A j \in CnjPairs(list) : i <= j
        IN  /\ ret.res.err = ""
            /\ ret.res.head = list[first].c

\* t is a functor with the modality over exactly the siblings, which are
\* words: some one-to-one matching pairs every argument with a sibling's
\* type_dict entry and label
FunctorWith(t, sibs, modality) ==
    /\ t.lab = ""
    /\ t.modality = modality
    /\ Len(t.arglist) = Len(sibs)
    /\ Len(t.colors) = Len(sibs)
    /\ \E m \in Orderings(DOMAIN sibs) :
          \A i \in DOMAIN sibs :
              /\ t.arglist[i] = Atom(type_labels[attrib[sibs[m[i]].c].pos])
              /\ t.colors[i] = sibs[m[i]].r.lab

\* phrase 2 is the head of phrase 1, the other children of phrase 1 are
\* words, and phrase 2 is a flat key whose head word hangs under it only
InternalHeadCase ==
    /\ {1, 2} \subseteq Keys(grouped)
    /\ HeadPairs(ChildList(grouped, 1)) # {}
    /\ ChildList(grouped, 1)[ChosenHead(ChildList(grouped, 1))].c = 2
    /\ \A i \in DOMAIN ChildList(grouped, 1) :
          ChildList(grouped, 1)[i].c # 2 => attrib[ChildList(grouped, 1)[i].c].hasword
    /\ FlatKey(grouped, 2)
    /\ ChildList(grouped, 2)[ChosenHead(ChildList(grouped, 2))].c \in OnlyUnder2

\* the list without its chosen head
NonHeads(list) == Keep(list, DOMAIN list \ {ChosenHead(list)})

\* C18: when the head of the root is internal, the head word beneath it gets
\* a functor over its own siblings whose result is the functor constructed at
\* the root: over the root's non-head children, with the root's plain type as
\* result, each with the modality marker exactly when its head edge is
\* secondary.
C18_NestedHead ==
    (ret.op = "recursive_assignment" /\ ret.current = 1 /\ InternalHeadCase
     /\ ret.res.err = "") =>
        LET l1 == ChildList(grouped, 1)
            l2 == ChildList(grouped, 2)
            key == get_key(attrib, l2[ChosenHead(l2)].c)
        IN  /\ key \in DOMAIN ret.res.lex
            /\ FunctorWith(ret.res.lex[key], NonHeads(l2),
                           l2[ChosenHead(l2)].r.tag = "secondary")
            /\ Len(ret.res.lex[key].result) = 1
            /\ FunctorWith(ret.res.lex[key].result[1], NonHeads(l1),
                           l1[ChosenHead(l1)].r.tag = "secondary")
            /\ ret.res.lex[key].result[1].result = <<Atom(type_labels[attrib[1].cat])>>

\* the head phrase hangs on a secondary edge beside a subject, and its head
\* word gets a functor into the marked functor over the subject
C18_Witness ==
    /\ ret.op = "recursive_assignment"
    /\ ret.current = 1
    /\ InternalHeadCase
    /\ ret.res.err = ""
    /\ ChildList(grouped, 1)[1].r = Rel("hd", "secondary")
    /\ Len(ChildList(grouped, 1)) = 2
    /\ LET l2 == ChildList(grouped, 2)
       IN  ret.res.lex[get_key(attrib, l2[ChosenHead(l2)].c)].result[1] =
               [arglist |-> <<Atom("NP")>>, result |-> <<Atom("S")>>, lab |-> "",
                modality |-> TRUE, colors |-> <<"su">>]

\* the places in the clause's child list of the edges that
\* abstract_object_to_subject promoted: the clause starts with secondary
\* edges to its arguments only
Promoted ==
    {i \in DOMAIN ChildList(grouped, 1) :
        /\ ChildList(grouped, 1)[i].r.tag = "primary"
        /\ ChildList(grouped, 1)[i].r.lab \in {"su", "obj1"}}

\* C19 as claimed: after a promotion the argument's own rel has no entry for
\* a complement and its entry for the clause is the promoted edge of the
\* clause's child list, primary with the same label, for su and for obj1.
C19_RecordAgrees ==
    pc = "relabelled" =>
        \A i \in Promoted :
            LET x == ChildList(grouped, 1)[i].c
            IN  /\ \A c \in DOMAIN attrib[x].rel : attrib[c].cat \notin {"inf", "ppart"}
                /\ attrib[1].id \in DOMAIN attrib[x].rel
                /\ attrib[x].rel[attrib[1].id] = ChildList(grouped, 1)[i].r

\* C20 as claimed: when remove_abstract_so has returned, no key with cat
\* ppart or inf has a child edge labeled su or obj1 and tagged secondary, and
\* the child lists of the keys with another cat are as they were.
C20_NoAbstractLeft ==
    pc = "removed" =>
        \A i \in DOMAIN grouped :
            IF attrib[grouped[i].k].cat \in {"ppart", "inf"}
            THEN \A j \in DOMAIN grouped[i].ch :
                    ~(/\ grouped[i].ch[j].r.lab \in {"su", "obj1"}
                      /\ grouped[i].ch[j].r.tag = "secondary")
            ELSE grouped[i].ch = ChildList(other, grouped[i].k)

\* the edges of the map g to node n that are tagged primary
PrimaryEdges(g, n) ==
    UNION {{<<i, j>> : j \in {j \in DOMAIN g[i].ch :
                                  g[i].ch[j].c = n /\ g[i].ch[j].r.tag = "primary"}} :
              i \in DOMAIN g}

\* the keys of the map g that hold node n on an edge with this tag
Holders(g, n, tag) ==
    {g[i].k : i \in {i \in DOMAIN g :
                        \E j \in DOMAIN g[i].ch :
                            g[i].ch[j].c = n /\ g[i].ch[j].r.tag = tag}}

\* C21: a coindexed node that had exactly one primary edge in the map given
\* to abstract_object_to_subject has exactly one primary edge in the map
\* that abstract_object_to_subject returns and in the map that
\* remove_abstract_so returns, also when two clauses hold it on a secondary
\* su or obj1 edge.
C21_OnePrimary ==
    pc \in {"relabelled", "removed"} =>
        \A n \in ControlNodes :
            (attrib[n].index # 0 /\ Cardinality(PrimaryEdges(other, n)) = 1)
                => Cardinality(PrimaryEdges(grouped, n)) = 1

\* both stages have returned on a map where two clauses held node 4 on a
\* secondary edge: one of them now holds it on a primary edge, the other
\* still on a secondary edge
C21_Witness ==
    /\ pc = "removed"
    /\ Holders(other, 4, "secondary") = {1, 11}
    /\ Cardinality(PrimaryEdges(other, 4)) = 1
    /\ Holders(grouped, 4, "primary") \in {{1}, {11}}
    /\ Holders(grouped, 4, "secondary") \in {{1}, {11}}

\* the children of a child list in ascending (begin, end, id) order
SpanOrdered(A, list) ==
    CHOOSE o \in Orderings(Range(list)) :
        \A i, j \in DOMAIN o :
            i < j => \/ A[o[i].c].begin < A[o[j].c].begin
                     \/ /\ A[o[i].c].begin = A[o[j].c].begin
                        /\ A[o[i].c].end < A[o[j].c].end
                     \/ /\ A[o[i].c].begin = A[o[j].c].begin
                        /\ A[o[i].c].end = A[o[j].c].end
                        /\ A[o[i].c].id < A[o[j].c].id

RECURSIVE SpaceJoined(_, _)
\* the words of the children, one space between two of them
SpaceJoined(A, nodes) ==
    IF nodes = <<>> THEN <<>>
    ELSE IF Len(nodes) = 1 THEN A[nodes[1].c].word
    ELSE A[nodes[1].c].word \o <<" ">> \o SpaceJoined(A, Tail(nodes))

\* the cat of a child, or its pos when it has no cat
TypeKey(A, n) == IF A[n].cat # "" THEN A[n].cat ELSE A[n].pos

\* the type keys that no other type key outnumbers among the children
MostFrequent(A, list) ==
    LET Votes(t) == Cardinality({j \in DOMAIN list : TypeKey(A, list[j].c) = t})
    IN  {TypeKey(A, list[j].c) : j \in
            {j \in DOMAIN list :
                \A i \in DOMAIN list :
                    Votes(TypeKey(A, list[i].c)) <= Votes(TypeKey(A, list[j].c))}}

\* C22: a call of collapse_mwu that returns gives every key with cat mwu the
\* words of its children, in ascending (begin, end, id) order with one space
\* between two of them and none before or after, as its word, and a type key
\* that is most frequent among its children as its cat, and takes it out of
\* the keys; the other keys, their child lists and their nodes stay as they
\* were.
C22_CollapseMwu ==
    [][(pc = "grouped" /\ pc' = "collapsed") =>
        /\ grouped' = Keep(grouped, {i \in DOMAIN grouped : ~IsMwuKey(attrib, grouped[i].k)})
        /\ \A i \in DOMAIN grouped :
              IF IsMwuKey(attrib, grouped[i].k)
              THEN /\ attrib'[grouped[i].k].hasword
                   /\ attrib'[grouped[i].k].word
                          = SpaceJoined(attrib, SpanOrdered(attrib, grouped[i].ch))
                   /\ attrib'[grouped[i].k].word # <<>>
                   /\ Head(attrib'[grouped[i].k].word) # " "
                   /\ attrib'[grouped[i].k].word[Len(attrib'[grouped[i].k].word)] # " "
                   /\ attrib'[grouped[i].k].cat \in MostFrequent(attrib, grouped[i].ch)
                   /\ grouped[i].k \notin Keys(grouped')
              ELSE attrib'[grouped[i].k] = attrib[grouped[i].k]]_vars

\* a unit of two words whose spans run against their ids was collapsed, and
\* the phrase beside it is still a key
C22_Witness ==
    /\ pc = "collapsed"
    /\ Keys(grouped) = {2}
    /\ attrib[1].hasword
    /\ attrib[1].word = <<"b">> \o <<" ">> \o <<"A", "b">>
    /\ attrib[4].begin < attrib[3].begin
    /\ attrib[1].cat \in {"name", "adj"}

\* C23 as claimed: when no key of the map given to
\* abstract_object_to_subject has an empty child list, no key of the map
\* that remove_abstract_so returns has an empty child list.
C23_NoEmptyList ==
    (pc = "removed" /\ \A i \in DOMAIN other : other[i].ch # <<>>)
        => \A i \in DOMAIN grouped : grouped[i].ch # <<>>

\* the words on a path of one or more edges of the map g from the key k
ReachableLeaves(A, g, k) ==
    {n \in ReachableFrom(g, Succ(g, k), {}) : is_leaf(A, n)}

\* C24: when recursive_assignment, started at a key with an empty lexicon,
\* returns without error on an acyclic map, the keys of the lexicon are the
\* keys of the words reachable from that key, one for each of them, and the
\* map is as it was.
C24_ReachableLeaves ==
    (/\ pc = "done"
     /\ ret.op = "recursive_assignment"
     /\ ret.res.err = ""
     /\ Acyclic(grouped))
        => /\ DOMAIN ret.res.lex
                = {get_key(attrib, n) : n \in ReachableLeaves(attrib, grouped, ret.current)}
           /\ Cardinality(DOMAIN ret.res.lex)
                = Cardinality(ReachableLeaves(attrib, grouped, ret.current))
           /\ Reordered(grouped) = other

\* the call returned at a phrase with a word and a phrase beneath it, with
\* entries for that word and for a word of the inner phrase
C24_Witness ==
    /\ pc = "done"
    /\ ret.op = "recursive_assignment"
    /\ ret.res.err = ""
    /\ ret.current = 1
    /\ 2 \in Succ(grouped, 1)
    /\ \E n \in Succ(grouped, 1), m \in Succ(grouped, 2) :
          /\ n # m
          /\ m \notin Succ(grouped, 1)
          /\ {get_key(attrib, n), get_key(attrib, m)} \subseteq DOMAIN ret.res.lex


====
